---- MODULE Spec2Model ----
(***************************************************************************)
(* Verification model of the Patterngrow analytics pipeline:               *)
(*   - the two portfolio simulators (runTradingSimulation, runSimulation), *)
(*   - maxDrawdown,                                                        *)
(*   - the computeSignals aggregator's fetch / fallback protocol.          *)
(*   - the GET /insights route in front of computeSignals,                 *)
(*   - the technical indicators, their ema helper and backtestStrategy,    *)
(*   - predictFuturePrices and the price targets.                          *)
(* JavaScript Numbers are modelled as binary floating point values with a  *)
(* MantBits-bit significand and round-to-nearest-even, plus Infinity, NaN  *)
(* and null, so that rounding, division by zero and truthiness behave as   *)
(* in the source.                                                          *)
(***************************************************************************)
EXTENDS Integers, Sequences, FiniteSets, TLC

\* ------------------------------------------------------------------------
\* Bounds of the model
\* ------------------------------------------------------------------------
\* significand width of the modelled Number type (binary64 has 53)
MantBits == 8
\* longest bar sequence replayed by a simulator
MaxBars == 3
\* longest equity curve handed to maxDrawdown
MaxCurve == 3
\* longest history a provider returns to computeSignals
MaxHistory == 2
\* longest bar sequence handed to an indicator or to backtestStrategy
MaxIndBars == 27
\* longest series handed to the ema helper
MaxEmaLen == 4
\* longest bar sequence handed to predictFuturePrices
MaxFcBars == 3
\* largest forecast horizon
MaxDays == 3

\* ------------------------------------------------------------------------
\* JavaScript Number values
\* ------------------------------------------------------------------------
FZero == [k |-> "fin", s |-> 1, m |-> 0, e |-> 0]
FNaN == [k |-> "nan", s |-> 1, m |-> 0, e |-> 0]
FNull == [k |-> "null", s |-> 1, m |-> 0, e |-> 0]
FInf(sg) == [k |-> "inf", s |-> sg, m |-> 0, e |-> 0]

IsFin(a) == a.k = "fin"
IsZero(a) == a.k = "fin" /\ a.m = 0
\* sign of a finite or infinite value as -1, 0, 1
Sgn(a) == IF IsZero(a) THEN 0 ELSE a.s

\* s * (n/d) * 2^e rounded to MantBits significant bits, ties to even
RECURSIVE RoundQ(_, _, _, _)
RoundQ(sg, n, d, e) ==
    IF n = 0 THEN FZero
    ELSE IF n >= d * 2^MantBits THEN RoundQ(sg, n, 2 * d, e + 1)
    ELSE IF n < d * 2^(MantBits - 1) THEN RoundQ(sg, 2 * n, d, e - 1)
    ELSE LET q == n \div d
             r == n % d
             up == (2 * r > d) \/ (2 * r = d /\ q % 2 = 1)
             q2 == IF up THEN q + 1 ELSE q
         IN  IF q2 = 2^MantBits
             THEN [k |-> "fin", s |-> sg, m |-> 2^(MantBits - 1), e |-> e + 1]
             ELSE [k |-> "fin", s |-> sg, m |-> q2, e |-> e]

\* numeric literals of the source
FInt(i) == IF i < 0 THEN RoundQ(-1, -i, 1, 0) ELSE RoundQ(1, i, 1, 0)
FRat(n, d) == RoundQ(1, n, d, 0)

FNeg(a) ==
    IF a.k = "fin" /\ a.m = 0 THEN a
    ELSE IF a.k \in {"fin", "inf"} THEN [a EXCEPT !.s = -a.s]
    ELSE a

\* |a| < |b| for finite a, b
MagLt(a, b) ==
    \/ a.m = 0 /\ b.m > 0
    \/ a.m > 0 /\ b.m > 0 /\ (a.e < b.e \/ (a.e = b.e /\ a.m < b.m))

\* a < b  (false when either side is NaN)
FLt(a, b) ==
    IF a.k = "nan" \/ b.k = "nan" THEN FALSE
    ELSE IF a.k = "inf" THEN a.s = -1 /\ ~(b.k = "inf" /\ b.s = -1)
    ELSE IF b.k = "inf" THEN b.s = 1
    ELSE IF Sgn(a) # Sgn(b) THEN Sgn(a) < Sgn(b)
    ELSE IF Sgn(a) = 1 THEN MagLt(a, b)
    ELSE IF Sgn(a) = -1 THEN MagLt(b, a)
    ELSE FALSE

\* a === b on Numbers (NaN is unequal to itself)
FEq(a, b) == a.k # "nan" /\ b.k # "nan" /\ a = b
FLe(a, b) == FLt(a, b) \/ FEq(a, b)
FGt(a, b) == FLt(b, a)
FGe(a, b) == FLe(b, a)

\* truthiness of a Number-or-null value: not null, not 0, not NaN
Truthy(a) == a.k = "inf" \/ (a.k = "fin" /\ a.m # 0)

\* a + b
FAdd(a, b) ==
    IF a.k = "nan" \/ b.k = "nan" THEN FNaN
    ELSE IF a.k = "inf" /\ b.k = "inf" THEN (IF a.s = b.s THEN a ELSE FNaN)
    ELSE IF a.k = "inf" THEN a
    ELSE IF b.k = "inf" THEN b
    ELSE IF a.m = 0 THEN b
    ELSE IF b.m = 0 THEN a
    ELSE LET hi == IF a.e >= b.e THEN a ELSE b
             lo == IF a.e >= b.e THEN b ELSE a
             sh == hi.e - lo.e
         IN  IF sh >= MantBits + 3 THEN hi
             ELSE LET v == hi.s * hi.m * 2^sh + lo.s * lo.m
                  IN  IF v < 0 THEN RoundQ(-1, -v, 1, lo.e)
                      ELSE RoundQ(1, v, 1, lo.e)

\* a - b
FSub(a, b) == FAdd(a, FNeg(b))

\* a * b
FMul(a, b) ==
    IF a.k = "nan" \/ b.k = "nan" THEN FNaN
    ELSE IF a.k = "inf" \/ b.k = "inf"
         THEN (IF IsZero(a) \/ IsZero(b) THEN FNaN ELSE FInf(a.s * b.s))
    ELSE IF a.m = 0 \/ b.m = 0 THEN FZero
    ELSE RoundQ(a.s * b.s, a.m * b.m, 1, a.e + b.e)

\* a / b
FDiv(a, b) ==
    IF a.k = "nan" \/ b.k = "nan" THEN FNaN
    ELSE IF a.k = "inf" THEN (IF b.k = "inf" THEN FNaN ELSE FInf(a.s * b.s))
    ELSE IF b.k = "inf" THEN FZero
    ELSE IF b.m = 0 THEN (IF a.m = 0 THEN FNaN ELSE FInf(a.s * b.s))
    ELSE IF a.m = 0 THEN FZero
    ELSE RoundQ(a.s * b.s, a.m, b.m, a.e - b.e)

\* ------------------------------------------------------------------------
\* State
\* ------------------------------------------------------------------------
VARIABLES
    \* --- portfolio simulators ---
    variant,         \* which simulator runs: "graduated" or "allOrNothing"
    initialCapital,  \* starting capital handed to the simulator
    stopLossPct,     \* runSimulation option (0 disables)
    takeProfitPct,   \* runSimulation option (0 disables)
    points,          \* bars replayed so far, each [date, close]
    lastSignal,      \* signals[idx] of the bar replayed last
    cash,            \* running cash
    shares,          \* running share count
    position,        \* runTradingSimulation: 0 flat, 1 holding
    entryPrice,      \* runSimulation: price of the open position or null
    portfolio,       \* equity series built so far, each [date, value]
    trades,          \* runSimulation's trade log
    simPc,           \* "loop" while bars are replayed, "done" after return
    \* --- maxDrawdown ---
    ddSeries,        \* points of the curve visited so far
    ddPeak,          \* peak
    maxDd,           \* maxDd
    ddPc,            \* "loop" inside series.forEach, "done" after return
    \* --- computeSignals ---
    symbol,          \* the symbol argument, as its character codes
    includeNews,     \* options.includeNews
    today,           \* weekday (getDay) of new Date() read by the fallback, -1 unread
    history,         \* history
    quote,           \* quote: <<>> for null, <<q>> for a quote object
    news,            \* news
    histFetch,       \* how fetchYahooHistory ended: "pending", "ok", "empty", "fail"
    quoteFetch,      \* how fetchQuote ended: "pending", "ok", "fail"
    newsFetch,       \* how fetchNews ended: "pending", "ok", "fail", "skipped"
    aggResult,       \* <<>> until computeSignals returns, then <<result>>
    aggError,        \* message of the error computeSignals threw, "" if none
    aggPc,           \* the await computeSignals is suspended at, or how it ended
    \* --- GET /insights ---
    reqSymbol,       \* req.query.symbol: <<>> when absent, else <<character codes>>
    reqCapital,      \* req.query.initialCapital: <<>> when absent, else <<character codes>>
    optCapital,      \* initialCapital as computeSignals destructures it, null before
    resStatus,       \* HTTP status of the response, 0 before it is sent
    resBody,         \* JSON body of the response, <<>> before it is sent
    insPc,           \* "handler", "computing", "responded"
    \* --- the ema helper ---
    emaValues,       \* the values handed to ema, null where the series has a gap
    emaPeriod,       \* the period argument
    emaResult,       \* the returned series, <<>> before the call
    emaPc,           \* "input" before the call, "done" after it
    \* --- the Dashboard's insights requests ---
    dashParams,      \* the selected parameters: symbol and primary indicator
    dashGen,         \* how many times the parameters have changed (renders of loadInsights)
    dashRequests,    \* the getInsights calls in flight, in the order they were started
    dashCancelled,   \* generations whose effect cleanup has set cancelRef.current = true
    dashShown,       \* <<>> when the insights state is cleared, else <<the payload applied>>
    dashError,       \* insightsError is set
    dashLoading,     \* insightsLoading
    dashPc,          \* "rendered" before the first effect runs, then "mounted"
    \* --- indicators and backtestStrategy ---
    indBars,         \* the bar sequence handed to the function
    indCall,         \* the function applied: "sma", "rsi", ..., "backtest"; "" before
    indWindow,       \* the window argument of calculateSMA, 0 for the other calls
    btIndicator,     \* the indicator argument of backtestStrategy, "" for the other calls
    indOut,          \* the returned series, by name
    indPc,           \* "input" before the call, "done" after it
    \* --- predictFuturePrices and the price targets ---
    fcPoints,        \* the bar sequence handed to predictFuturePrices
    fcModel,         \* the model argument
    fcDays,          \* the days argument
    fcZone,          \* hours the clock of the running process is ahead of UTC
    fcOut,           \* the returned predictions, each [date, value]
    fcTargets,       \* priceTargets: <<>> for null, else <<targets>>
    fcPc             \* "input", "predicted", "done"

simVars == <<variant, initialCapital, stopLossPct, takeProfitPct, points,
             lastSignal, cash, shares, position, entryPrice, portfolio,
             trades, simPc>>
ddVars == <<ddSeries, ddPeak, maxDd, ddPc>>
aggVars == <<symbol, includeNews, today, history, quote, news, histFetch,
             quoteFetch, newsFetch, aggResult, aggError, aggPc>>

insVars == <<reqSymbol, reqCapital, optCapital, resStatus, resBody, insPc>>

indVars == <<indBars, indCall, indWindow, btIndicator, indOut, indPc>>
fcVars == <<fcPoints, fcModel, fcDays, fcZone, fcOut, fcTargets, fcPc>>

emaVars == <<emaValues, emaPeriod, emaResult, emaPc>>

dashVars == <<dashParams, dashGen, dashRequests, dashCancelled, dashShown, dashError, dashLoading, dashPc>>

vars == <<simVars, ddVars, aggVars, insVars, indVars, fcVars, emaVars, dashVars>>
nonSimVars == <<ddVars, aggVars, insVars, indVars, fcVars, emaVars, dashVars>>
nonDdVars == <<simVars, aggVars, insVars, indVars, fcVars, emaVars, dashVars>>
nonAggVars == <<simVars, ddVars, insVars, indVars, fcVars, emaVars, dashVars>>
nonInsAggVars == <<simVars, ddVars, indVars, fcVars, emaVars, dashVars>>
nonIndVars == <<simVars, ddVars, aggVars, insVars, fcVars, emaVars, dashVars>>
nonFcVars == <<simVars, ddVars, aggVars, insVars, indVars, emaVars, dashVars>>
nonEmaVars == <<simVars, ddVars, aggVars, insVars, indVars, fcVars, dashVars>>
nonDashVars == <<simVars, ddVars, aggVars, insVars, indVars, fcVars, emaVars>>

\* the state of a component that is not running
SimIdle ==
    /\ variant = "none"
    /\ initialCapital = FZero
    /\ stopLossPct = FZero
    /\ takeProfitPct = FZero
    /\ points = <<>>
    /\ lastSignal = [signal |-> "undefined", numericSignal |-> 0]
    /\ cash = FZero
    /\ shares = FZero
    /\ position = 0
    /\ entryPrice = FNull
    /\ portfolio = <<>>
    /\ trades = <<>>
    /\ simPc = "idle"
DdIdle ==
    /\ ddSeries = <<>>
    /\ ddPeak = FInf(-1)
    /\ maxDd = FZero
    /\ ddPc = "idle"
AggIdle ==
    /\ symbol = <<>>
    /\ includeNews = FALSE
    /\ today = -1
    /\ history = <<>>
    /\ quote = <<>>
    /\ news = <<>>
    /\ histFetch = "pending"
    /\ quoteFetch = "pending"
    /\ newsFetch = "pending"
    /\ aggResult = <<>>
    /\ aggError = ""
    /\ aggPc = "idle"
InsIdle ==
    /\ reqSymbol = <<>>
    /\ reqCapital = <<>>
    /\ optCapital = FNull
    /\ resStatus = 0
    /\ resBody = <<>>
    /\ insPc = "idle"
IndIdle ==
    /\ indBars = <<>>
    /\ indCall = ""
    /\ indWindow = 0
    /\ btIndicator = ""
    /\ indOut = <<>>
    /\ indPc = "idle"
FcIdle ==
    /\ fcPoints = <<>>
    /\ fcModel = ""
    /\ fcDays = 0
    /\ fcZone = 0
    /\ fcOut = <<>>
    /\ fcTargets = <<>>
    /\ fcPc = "idle"
DashIdle ==
    /\ dashParams = <<>>
    /\ dashGen = 0
    /\ dashRequests = <<>>
    /\ dashCancelled = {}
    /\ dashShown = <<>>
    /\ dashError = FALSE
    /\ dashLoading = FALSE
    /\ dashPc = "idle"
EmaIdle ==
    /\ emaValues = <<>>
    /\ emaPeriod = 0
    /\ emaResult = <<>>
    /\ emaPc = "idle"

\* ------------------------------------------------------------------------
\* Simulator inputs
\* ------------------------------------------------------------------------
\* closes of the replayed bars; 0 is what Number(null) gives for a bar whose
\* close the provider left null
Closes == {FZero, FInt(7), FInt(14)}
\* two ordinary capitals and one so small that a holding is below 1e-6 shares
Capitals == {FInt(10), FInt(29), FRat(1, 100000)}
StopLossChoices == {FZero, FInt(50)}
TakeProfitChoices == {FZero, FInt(100)}

\* signal entries as backtestStrategy builds them, plus labels outside its
\* vocabulary ("buy", "sell") and a missing entry (signals[idx] undefined)
NoSignal == [signal |-> "undefined", numericSignal |-> 0]
GradedSignals ==
    {[signal |-> "hold", numericSignal |-> 0],
     [signal |-> "buy_strong", numericSignal |-> 1],
     [signal |-> "buy_medium", numericSignal |-> 1],
     [signal |-> "buy_weak", numericSignal |-> 1],
     [signal |-> "buy", numericSignal |-> 1],
     [signal |-> "sell_strong", numericSignal |-> -1],
     [signal |-> "sell_medium", numericSignal |-> -1],
     [signal |-> "sell_weak", numericSignal |-> -1],
     [signal |-> "sell", numericSignal |-> -1],
     NoSignal}
NumericSignals ==
    {[signal |-> "hold", numericSignal |-> 0],
     [signal |-> "buy_strong", numericSignal |-> 1],
     [signal |-> "sell_strong", numericSignal |-> -1],
     NoSignal}

\* String.prototype.startsWith / endsWith on the signal labels
StartsWith(label, prefix) ==
    \/ prefix = "buy" /\ label \in {"buy_strong", "buy_medium", "buy_weak", "buy"}
    \/ prefix = "sell" /\ label \in {"sell_strong", "sell_medium", "sell_weak", "sell"}
EndsWith(label, suffix) ==
    \/ suffix = "strong" /\ label \in {"buy_strong", "sell_strong"}
    \/ suffix = "medium" /\ label \in {"buy_medium", "sell_medium"}
    \/ suffix = "weak" /\ label \in {"buy_weak", "sell_weak"}

\* signals[index]?.signal ?? 'hold'
SignalLabel(sig) == IF sig = NoSignal THEN "hold" ELSE sig.signal
\* signals[idx]?.numericSignal ?? 0
SignalNumeric(sig) == IF sig = NoSignal THEN 0 ELSE sig.numericSignal

\* ------------------------------------------------------------------------
\* runTradingSimulation (graduated variant)
\* ------------------------------------------------------------------------
\* mutant of Weight: the medium grade takes the strong grade's fraction
WeightMediumAsStrong(label) ==
    IF EndsWith(label, "strong") THEN FRat(1, 2)
    ELSE IF EndsWith(label, "medium") THEN FRat(1, 2)
    ELSE IF EndsWith(label, "weak") THEN FRat(1, 10)
    ELSE FInt(1)

\* fraction of cash / shares moved by a buy / sell label
Weight(label) ==
    IF EndsWith(label, "strong") THEN FRat(1, 2)
    ELSE IF EndsWith(label, "medium") THEN FRat(3, 10)
    ELSE IF EndsWith(label, "weak") THEN FRat(1, 10)
    ELSE FInt(1)

\* the 1e-6 threshold under which a remaining position is dropped
Dust == FRat(1, 1000000)

\* buy branch: [cash, shares, position] after investing weight * cash
GradBuy(c, sh, pos, price, label) ==
    LET toInvest == FMul(c, Weight(label))
        purchased == FDiv(toInvest, price)
        sh2 == FAdd(sh, purchased)
    IN  [cash |-> FSub(c, toInvest),
         shares |-> sh2,
         position |-> IF FGt(sh2, FZero) THEN 1 ELSE pos]

\* mutant of GradSell: every sell closes the position
GradSellClosing(c, sh, pos, price, label) ==
    [cash |-> FAdd(c, FMul(FMul(sh, Weight(label)), price)),
     shares |-> FZero,
     position |-> 0]

\* sell branch: [cash, shares, position] after selling weight * shares
GradSell(c, sh, pos, price, label) ==
    LET toSell == FMul(sh, Weight(label))
        sh2 == FSub(sh, toSell)
        flat == FLe(sh2, Dust)
    IN  [cash |-> FAdd(c, FMul(toSell, price)),
         shares |-> IF flat THEN FZero ELSE sh2,
         position |-> IF flat THEN 0 ELSE pos]

\* body of the forEach callback for index >= 1, before the equity push
GradTrade(c, sh, pos, price, label) ==
    IF StartsWith(label, "buy") /\ pos = 0 THEN GradBuy(c, sh, pos, price, label)
    ELSE IF StartsWith(label, "sell") /\ pos = 1 THEN GradSell(c, sh, pos, price, label)
    ELSE [cash |-> c, shares |-> sh, position |-> pos]

\* mutant of MarkToMarket: the open position is left out of the value
MarkToMarketCashOnly(c, sh, price) == c

\* value pushed for a bar: cash + shares * price
MarkToMarket(c, sh, price) == FAdd(c, FMul(sh, price))

\* value pushed for the bar at index 0
GradFirstValue == initialCapital

\* mutant of PushPoint: bars whose close is 0 get no point
PushPointSkipZeroClose(series, row, value) ==
    IF row.close = FZero THEN series
    ELSE Append(series, [date |-> row.date, value |-> value])

\* series.push({ date: row.date, value })
PushPoint(series, row, value) == Append(series, [date |-> row.date, value |-> value])

\* one iteration of points.forEach in runTradingSimulation
GradBar(close, sig) ==
    /\ variant = "graduated"
    /\ simPc = "loop"
    /\ Len(points) < MaxBars
    /\ LET date == Len(points) + 1
           row == [date |-> date, close |-> close]
       IN  /\ points' = Append(points, row)
           /\ lastSignal' = sig
           /\ IF Len(points) = 0
              THEN /\ portfolio' = PushPoint(portfolio, row, GradFirstValue)
                   /\ UNCHANGED <<cash, shares, position>>
              ELSE LET r == GradTrade(cash, shares, position, close, SignalLabel(sig))
                   IN  /\ cash' = r.cash
                       /\ shares' = r.shares
                       /\ position' = r.position
                       /\ portfolio' = PushPoint(portfolio, row,
                                           MarkToMarket(r.cash, r.shares, close))
    /\ UNCHANGED <<variant, initialCapital, stopLossPct, takeProfitPct, entryPrice, trades>>
    /\ UNCHANGED <<simPc, nonSimVars>>

\* return portfolio
GradReturn ==
    /\ variant = "graduated"
    /\ simPc = "loop"
    /\ simPc' = "done"
    /\ UNCHANGED <<variant, initialCapital, stopLossPct, takeProfitPct, points,
                   lastSignal, cash, shares, position, entryPrice, portfolio, trades>>
    /\ UNCHANGED nonSimVars

\* ------------------------------------------------------------------------
\* runSimulation (all-or-nothing variant with stop-loss / take-profit)
\* ------------------------------------------------------------------------
\* ((price - entryPrice) / entryPrice) * 100
ChangePct(price, entry) == FMul(FDiv(FSub(price, entry), entry), FInt(100))

\* mutant of StopHit: strict comparison
StopHitStrict(sl, chg) == Truthy(sl) /\ FLt(chg, FNeg(sl))

\* stopLossPct && changePct <= -stopLossPct
StopHit(sl, chg) == Truthy(sl) /\ FLe(chg, FNeg(sl))
\* takeProfitPct && changePct >= takeProfitPct
TargetHit(tp, chg) == Truthy(tp) /\ FGe(chg, tp)

\* the stop-loss / take-profit block at the top of the callback
AonProtect(st, row, sl, tp) ==
    IF FGt(st.shares, FZero) /\ Truthy(st.entryPrice)
    THEN LET chg == ChangePct(row.close, st.entryPrice)
             closed(type) ==
                 [cash |-> FAdd(st.cash, FMul(st.shares, row.close)),
                  shares |-> FZero,
                  entryPrice |-> FNull,
                  trades |-> Append(st.trades,
                      [type |-> type, date |-> row.date, price |-> row.close, changePct |-> chg])]
         IN  IF StopHit(sl, chg) THEN closed("STOP")
             ELSE IF TargetHit(tp, chg) THEN closed("TARGET")
             ELSE st
    ELSE st

\* cash left after paying for qty shares
AonCashAfterBuy(c, qty, price) == FSub(c, FMul(qty, price))

\* the signal-driven entry / exit block
AonSignal(st, row, signal) ==
    IF signal > 0 /\ FEq(st.shares, FZero) /\ FGt(row.close, FZero)
    THEN LET qty == FDiv(st.cash, row.close)
         IN  IF FGt(qty, FZero)
             THEN [cash |-> AonCashAfterBuy(st.cash, qty, row.close),
                   shares |-> qty,
                   entryPrice |-> row.close,
                   trades |-> Append(st.trades,
                       [type |-> "BUY", date |-> row.date, price |-> row.close, changePct |-> FNull])]
             ELSE st
    ELSE IF signal < 0 /\ FGt(st.shares, FZero)
    THEN [cash |-> FAdd(st.cash, FMul(st.shares, row.close)),
          shares |-> FZero,
          entryPrice |-> FNull,
          trades |-> Append(st.trades,
              [type |-> "SELL", date |-> row.date, price |-> row.close,
               changePct |-> IF Truthy(st.entryPrice)
                             THEN ChangePct(row.close, st.entryPrice) ELSE FNull])]
    ELSE st

\* mutant of AonTrade: the signal is handled before the protective exit
AonTradeSignalFirst(st, row, signal, sl, tp) ==
    AonProtect(AonSignal(st, row, signal), row, sl, tp)

\* the callback up to the equity push: protective exit first, then the signal
AonTrade(st, row, signal, sl, tp) == AonSignal(AonProtect(st, row, sl, tp), row, signal)

\* one iteration of points.forEach in runSimulation
AonBar(close, sig) ==
    /\ variant = "allOrNothing"
    /\ simPc = "loop"
    /\ Len(points) < MaxBars
    /\ LET row == [date |-> Len(points) + 1, close |-> close]
           st == [cash |-> cash, shares |-> shares, entryPrice |-> entryPrice, trades |-> trades]
           r == AonTrade(st, row, SignalNumeric(sig), stopLossPct, takeProfitPct)
       IN  /\ points' = Append(points, row)
           /\ lastSignal' = sig
           /\ cash' = r.cash
           /\ shares' = r.shares
           /\ entryPrice' = r.entryPrice
           /\ trades' = r.trades
           /\ portfolio' = PushPoint(portfolio, row, MarkToMarket(r.cash, r.shares, close))
    /\ UNCHANGED <<variant, initialCapital, stopLossPct, takeProfitPct, position, simPc>>
    /\ UNCHANGED nonSimVars

\* mutant of AonLiquidates: a position held at the end is left open
AonLiquidatesNever(sh, pts) == FALSE

\* mutant of AonLiquidates: the final close is not tested
AonLiquidatesAnyClose(sh, pts) == FGt(sh, FZero) /\ Len(pts) > 0

\* whether the code after the loop liquidates: shares > 0 and last?.close truthy
AonLiquidates(sh, pts) == FGt(sh, FZero) /\ Len(pts) > 0 /\ Truthy(pts[Len(pts)].close)

\* the code after the loop: forced liquidation, then return {equity, trades}
AonFinish ==
    /\ variant = "allOrNothing"
    /\ simPc = "loop"
    /\ IF AonLiquidates(shares, points)
       THEN LET last == points[Len(points)]
            IN  /\ cash' = FAdd(cash, FMul(shares, last.close))
                /\ trades' = Append(trades,
                       [type |-> "LIQUIDATE", date |-> last.date, price |-> last.close,
                        changePct |-> FNull])
       ELSE UNCHANGED <<cash, trades>>
    /\ simPc' = "done"
    /\ UNCHANGED <<variant, initialCapital, stopLossPct, takeProfitPct, points,
                   lastSignal, shares, position, entryPrice, portfolio>>
    /\ UNCHANGED nonSimVars

\* ------------------------------------------------------------------------
\* Simulator specification
\* ------------------------------------------------------------------------
SimInit ==
    /\ variant \in {"graduated", "allOrNothing"}
    /\ initialCapital \in Capitals
    /\ stopLossPct \in (IF variant = "allOrNothing" THEN StopLossChoices ELSE {FZero})
    /\ takeProfitPct \in (IF variant = "allOrNothing" THEN TakeProfitChoices ELSE {FZero})
    /\ points = <<>>
    /\ lastSignal = NoSignal
    /\ cash = initialCapital
    /\ shares = FZero
    /\ position = 0
    /\ entryPrice = FNull
    /\ portfolio = <<>>
    /\ trades = <<>>
    /\ simPc = "loop"
    /\ DdIdle
    /\ AggIdle
    /\ InsIdle
    /\ IndIdle
    /\ FcIdle
    /\ EmaIdle
    /\ DashIdle

SimNext ==
    \/ \E close \in Closes, sig \in GradedSignals : GradBar(close, sig)
    \/ GradReturn
    \/ \E close \in Closes, sig \in NumericSignals : AonBar(close, sig)
    \/ AonFinish

SimSpec == SimInit /\ [][SimNext]_vars

\* ------------------------------------------------------------------------
\* Simulator properties
\* ------------------------------------------------------------------------
AllClosesPositive == \A i \in 1..Len(points) : FGt(points[i].close, FZero)
IsBarStep == Len(points') = Len(points) + 1
BarClose == points'[Len(points')].close
NewTrades == SubSeq(trades', Len(trades) + 1, Len(trades'))
NewTypes == {NewTrades[i].type : i \in 1..Len(NewTrades)}
CountType(type) == Cardinality({i \in 1..Len(trades) : trades[i].type = type})

\* C1: with positive closes and positive starting capital, cash >= 0 and
\* shares >= 0 hold after every bar, in both simulator variants.
C1_CashSharesNonNegative ==
    (AllClosesPositive /\ FGt(initialCapital, FZero))
        => (FGe(cash, FZero) /\ FGe(shares, FZero))

\* the same statement restricted to runTradingSimulation
GradCashSharesNonNegative ==
    (variant = "graduated" /\ AllClosesPositive)
        => (FGe(cash, FZero) /\ FGe(shares, FZero))

\* C2: every step that opens a position (flat -> holding) or closes / reduces
\* one (fewer shares) appends an event to the returned trade log, in both
\* simulator variants.
C2_TradeLoggedOnTransition ==
    [][(IsBarStep /\ (\/ FEq(shares, FZero) /\ FGt(shares', FZero)
                      \/ FLt(shares', shares)))
          => Len(trades') > Len(trades)]_vars

\* the same statement restricted to runSimulation
AonTradeLoggedOnTransition ==
    [][(variant = "allOrNothing" /\ IsBarStep
          /\ (\/ FEq(shares, FZero) /\ FGt(shares', FZero)
              \/ FLt(shares', shares)))
          => Len(trades') > Len(trades)]_vars

\* C3: the equity series has exactly one point per bar, point i carrying
\* bar i's date, in both simulator variants.
C3_EquityAlignedWithBars ==
    /\ Len(portfolio) = Len(points)
    /\ \A i \in 1..Len(portfolio) : portfolio[i].date = points[i].date

C3_Witness ==
    /\ variant = "allOrNothing"
    /\ simPc = "done"
    /\ Len(points) = 3
    /\ Len(trades) >= 2

\* C4: for a nonempty bar sequence the first equity point equals the starting
\* capital, whatever the signal on bar 0, in both simulator variants.
C4_FirstPointIsCapital ==
    Len(portfolio) >= 1 => portfolio[1].value = initialCapital

C4_Witness ==
    /\ variant = "allOrNothing"
    /\ Len(trades) >= 1
    /\ trades[1].type = "BUY"
    /\ trades[1].date = 1
    /\ cash # initialCapital
    /\ Len(portfolio) >= 1

\* C5: in runSimulation, on a bar entered holding a position, a percentage
\* change <= -stopLossPct closes it with STOP, otherwise a change >=
\* takeProfitPct closes it with TARGET; the protective exit comes first among
\* the bar's events and no SELL is logged on that bar; a percentage of 0
\* disables its rule, and without a breach no STOP / TARGET is logged.
C5_ProtectiveExitBeforeSignal ==
    [][(variant = "allOrNothing" /\ IsBarStep)
          => LET held == FGt(shares, FZero)
                 chg == ChangePct(BarClose, entryPrice)
                 stop == held /\ stopLossPct # FZero /\ FLe(chg, FNeg(stopLossPct))
                 target == held /\ ~stop /\ takeProfitPct # FZero
                              /\ FGe(chg, takeProfitPct)
             IN  /\ stop => /\ Len(NewTrades) >= 1
                            /\ NewTrades[1].type = "STOP"
                            /\ NewTrades[1].price = BarClose
                            /\ NewTypes \subseteq {"STOP", "BUY"}
                 /\ target => /\ Len(NewTrades) >= 1
                              /\ NewTrades[1].type = "TARGET"
                              /\ NewTrades[1].price = BarClose
                              /\ NewTypes \subseteq {"TARGET", "BUY"}
                 /\ ~stop => "STOP" \notin NewTypes
                 /\ ~target => "TARGET" \notin NewTypes]_vars

C5_Witness ==
    /\ variant = "allOrNothing"
    /\ Len(trades) >= 2
    /\ trades[Len(trades)].type = "STOP"
    /\ trades[Len(trades)].date = Len(points)
    /\ lastSignal.numericSignal = -1
    /\ simPc = "loop"

\* C6 as stated: at the end of runSimulation, shares > 0 gives exactly one
\* LIQUIDATE trade, the last one, at the final bar's close and date; a flat
\* position gives none.
C6_LiquidateWheneverHolding ==
    (variant = "allOrNothing" /\ simPc = "done")
        => IF FGt(shares, FZero)
           THEN /\ CountType("LIQUIDATE") = 1
                /\ trades[Len(trades)].type = "LIQUIDATE"
                /\ trades[Len(trades)].price = points[Len(points)].close
                /\ trades[Len(trades)].date = points[Len(points)].date
           ELSE CountType("LIQUIDATE") = 0

\* C6 amended: the forced liquidation happens when shares > 0 and the final
\* bar's close is nonzero; with a flat position or a final close of 0 no
\* LIQUIDATE trade is logged.
C6_LiquidateWhenHoldingAtNonzeroClose ==
    (variant = "allOrNothing" /\ simPc = "done")
        => IF FGt(shares, FZero) /\ points[Len(points)].close # FZero
           THEN /\ CountType("LIQUIDATE") = 1
                /\ trades[Len(trades)].type = "LIQUIDATE"
                /\ trades[Len(trades)].price = points[Len(points)].close
                /\ trades[Len(trades)].date = points[Len(points)].date
           ELSE CountType("LIQUIDATE") = 0

C6_Witness ==
    /\ variant = "allOrNothing"
    /\ simPc = "done"
    /\ FGt(shares, FZero)
    /\ trades[Len(trades)].type = "LIQUIDATE"
    /\ Len(points) = 3

\* the weight table of C7
C7Weight(label) ==
    CASE label \in {"buy_strong", "sell_strong"} -> FRat(1, 2)
      [] label \in {"buy_medium", "sell_medium"} -> FRat(3, 10)
      [] label \in {"buy_weak", "sell_weak"} -> FRat(1, 10)
      [] OTHER -> FInt(1)

\* C7: in runTradingSimulation a buy label while flat moves fraction w of
\* cash into shares at the bar's close, a sell label while holding turns
\* fraction w of the shares into cash at the bar's close (w = 0.5 strong,
\* 0.3 medium, 0.1 weak, 1 otherwise), and the bar's equity point is
\* cash + shares * close.
C7_GraduatedFractions ==
    [][(variant = "graduated" /\ IsBarStep /\ Len(points) >= 1)
          => LET label == SignalLabel(lastSignal')
                 w == C7Weight(label)
                 isBuy == label \in {"buy_strong", "buy_medium", "buy_weak", "buy"}
                 isSell == label \in {"sell_strong", "sell_medium", "sell_weak", "sell"}
             IN  /\ (isBuy /\ position = 0)
                       => /\ cash' = FSub(cash, FMul(cash, w))
                          /\ shares' = FAdd(shares, FDiv(FMul(cash, w), BarClose))
                 /\ (isSell /\ position = 1)
                       => /\ cash' = FAdd(cash, FMul(FMul(shares, w), BarClose))
                          /\ \/ shares' = FSub(shares, FMul(shares, w))
                             \/ /\ FLe(FSub(shares, FMul(shares, w)), FRat(1, 1000000))
                                /\ shares' = FZero
                 /\ portfolio'[Len(portfolio')].value
                       = FAdd(cash', FMul(shares', BarClose))]_vars

C7_Witness ==
    /\ variant = "graduated"
    /\ Len(points) = 3
    /\ lastSignal.signal = "sell_medium"
    /\ position = 1
    /\ FGt(shares, FZero)
    /\ FGt(points[3].close, FZero)

\* the events that close a position
ClosingTypes == {"SELL", "STOP", "TARGET", "LIQUIDATE"}

\* C25: in runSimulation with positive closes the trade log alternates: the
\* events at odd positions are BUY, those at even positions are SELL, STOP,
\* TARGET or LIQUIDATE, and the log of a finished run does not end with a BUY.
C25_TradesAlternate ==
    (variant = "allOrNothing" /\ AllClosesPositive) =>
        /\ \A k \in 1..Len(trades) :
              IF k % 2 = 1 THEN trades[k].type = "BUY"
              ELSE trades[k].type \in ClosingTypes
        /\ simPc = "done" => Len(trades) % 2 = 0

\* a finished run that opened, was stopped out, opened again and was liquidated
C25_Witness ==
    /\ variant = "allOrNothing"
    /\ AllClosesPositive
    /\ simPc = "done"
    /\ Len(trades) = 4
    /\ trades[2].type \in {"STOP", "TARGET", "SELL"}
    /\ trades[4].type = "LIQUIDATE"

\* a bar of runSimulation on which a STOP or TARGET exit fires while the
\* bar's signal is positive
ProtectiveExitOnBuyBar ==
    /\ variant = "allOrNothing"
    /\ IsBarStep
    /\ NewTypes \cap {"STOP", "TARGET"} # {}
    /\ SignalNumeric(lastSignal') > 0

\* the position is opened again on the bar of the exit
ReopenedOnSameBar ==
    /\ Len(NewTrades) = 2
    /\ NewTrades[1].type \in {"STOP", "TARGET"}
    /\ NewTrades[2].type = "BUY"
    /\ NewTrades[2].date = NewTrades[1].date
    /\ NewTrades[2].price = NewTrades[1].price
    /\ FGt(shares', FZero)

\* C26 as stated: every bar on which a STOP or TARGET exit fires while the
\* bar's signal is positive logs a BUY at the same date and price right
\* after the exit and ends holding shares.
C26_ExitThenReentry ==
    [][ProtectiveExitOnBuyBar => ReopenedOnSameBar]_vars

\* C26 amended: such a bar re-opens the position when its close is positive
\* and the cash after the exit buys a positive quantity; on a bar whose
\* close is 0 the exit is the only event and the bar ends flat.
C26_ExitThenReentryAtPositiveClose ==
    [][ProtectiveExitOnBuyBar =>
          IF FGt(BarClose, FZero)
             /\ FGt(FDiv(FAdd(cash, FMul(shares, BarClose)), BarClose), FZero)
          THEN ReopenedOnSameBar
          ELSE Len(NewTrades) = 1 /\ shares' = FZero]_vars

\* a bar that was stopped out and bought back
C26_Witness ==
    /\ variant = "allOrNothing"
    /\ simPc = "loop"
    /\ Len(trades) >= 3
    /\ trades[Len(trades) - 1].type \in {"STOP", "TARGET"}
    /\ trades[Len(trades)].type = "BUY"
    /\ trades[Len(trades)].date = trades[Len(trades) - 1].date
    /\ trades[Len(trades)].date = Len(points)
    /\ lastSignal.numericSignal = 1
    /\ FGt(shares, FZero)

\* |a|
Magnitude(a) == IF FLt(a, FZero) THEN FNeg(a) ELSE a

\* a and b are numbers that differ by no more than the rounding of a few
\* operations: |a - b| <= (|a| + |b|) * 2^-(MantBits - 3)
WealthNear(a, b) ==
    /\ IsFin(a)
    /\ IsFin(b)
    /\ FLe(Magnitude(FSub(a, b)),
           FMul(FAdd(Magnitude(a), Magnitude(b)), FRat(1, 2^(MantBits - 3))))

\* C27: in both simulators the step of a bar leaves cash + shares * close,
\* taken at that bar's close, as it was before the step (up to rounding).
C27_TradeKeepsWealth ==
    [][IsBarStep =>
          WealthNear(MarkToMarket(cash, shares, BarClose),
                     MarkToMarket(cash', shares', BarClose))]_vars

\* the labels that carry one of the fractions 0.5, 0.3, 0.1
GradedSells == {"sell_strong", "sell_medium", "sell_weak"}

\* what is left of sh shares after a sell with this label
SellRemainder(sh, label) == FSub(sh, FMul(sh, C7Weight(label)))

\* the part of C28 about signals that are not acted on and about the only
\* way back to flat
GradFrame(label) ==
    /\ Len(points) = 0 => (cash' = cash /\ shares' = shares /\ position' = position)
    /\ (StartsWith(label, "buy") /\ position = 1) => (cash' = cash /\ shares' = shares)
    /\ (StartsWith(label, "sell") /\ position = 0) => (cash' = cash /\ shares' = shares)
    /\ (position = 1 /\ position' = 0) =>
          /\ StartsWith(label, "sell")
          /\ FLe(SellRemainder(shares, label), FRat(1, 1000000))

\* C28 as stated: in runTradingSimulation the signal of bar 0 is not acted
\* on, a buy while holding and a sell while flat change neither cash nor
\* shares, the position becomes flat only by a sell that leaves at most 1e-6
\* shares, and a sell with fraction 0.5, 0.3 or 0.1 never closes a position.
C28_GraduatedFrame ==
    [][(variant = "graduated" /\ IsBarStep) =>
          /\ GradFrame(SignalLabel(lastSignal'))
          /\ (Len(points) > 0 /\ position = 1
                /\ SignalLabel(lastSignal') \in GradedSells) => position' = 1]_vars

\* C28 amended: as above, but a sell with fraction 0.5, 0.3 or 0.1 keeps the
\* position open exactly when more than 1e-6 shares are left.
C28_GraduatedFrameAboveDust ==
    [][(variant = "graduated" /\ IsBarStep) =>
          /\ GradFrame(SignalLabel(lastSignal'))
          /\ (Len(points) > 0 /\ position = 1
                /\ SignalLabel(lastSignal') \in GradedSells) =>
                IF FLe(SellRemainder(shares, SignalLabel(lastSignal')), FRat(1, 1000000))
                THEN position' = 0 /\ shares' = FZero
                ELSE /\ position' = 1
                     /\ shares' = SellRemainder(shares, SignalLabel(lastSignal'))]_vars

\* a position that a graded sell has reduced and left open
C28_Witness ==
    /\ variant = "graduated"
    /\ Len(points) = 3
    /\ lastSignal.signal = "sell_strong"
    /\ position = 1
    /\ FGt(shares, FRat(1, 1000000))
    /\ FGt(cash, FZero)
    /\ cash # initialCapital

\* ------------------------------------------------------------------------
\* maxDrawdown
\* ------------------------------------------------------------------------
\* values of an equity curve as runSimulation returns it to handleRun: the
\* first point is the positive starting capital, later points are any finite
\* mark-to-market value (0 while holding through a bar without close, below 0
\* by a rounding error)
CurveValues == {FNeg(FRat(1, 8)), FZero, FInt(7), FInt(10), FInt(14), FInt(29)}

\* mutant of DdUpdate: the drawdown is taken relative to the value
DdUpdateOverValue(peak, dd, value) ==
    LET pk == IF FGt(value, peak) THEN value ELSE peak
    IN  IF ~IsFin(pk) \/ IsZero(pk) THEN [peak |-> pk, maxDd |-> dd]
        ELSE LET drawdown == FDiv(FSub(value, pk), value)
             IN  [peak |-> pk, maxDd |-> IF FLt(drawdown, dd) THEN drawdown ELSE dd]

\* body of the series.forEach callback: [peak, maxDd] after one point
DdUpdate(peak, dd, value) ==
    LET pk == IF FGt(value, peak) THEN value ELSE peak
    IN  IF ~IsFin(pk) \/ IsZero(pk) THEN [peak |-> pk, maxDd |-> dd]
        ELSE LET drawdown == FDiv(FSub(value, pk), pk)
             IN  [peak |-> pk, maxDd |-> IF FLt(drawdown, dd) THEN drawdown ELSE dd]

\* one iteration of series.forEach in maxDrawdown
DdPoint(value) ==
    /\ ddPc = "loop"
    /\ Len(ddSeries) < MaxCurve
    /\ Len(ddSeries) = 0 => value \in Capitals
    /\ LET r == DdUpdate(ddPeak, maxDd, value)
       IN  /\ ddPeak' = r.peak
           /\ maxDd' = r.maxDd
    /\ ddSeries' = Append(ddSeries, [date |-> Len(ddSeries) + 1, value |-> value])
    /\ UNCHANGED <<ddPc, nonDdVars>>

\* return maxDd
DdReturn ==
    /\ ddPc = "loop"
    /\ Len(ddSeries) >= 1
    /\ ddPc' = "done"
    /\ UNCHANGED <<ddSeries, ddPeak, maxDd, nonDdVars>>

DdInit ==
    /\ ddSeries = <<>>
    /\ ddPeak = FInf(-1)
    /\ maxDd = FZero
    /\ ddPc = "loop"
    /\ SimIdle
    /\ AggIdle
    /\ InsIdle
    /\ IndIdle
    /\ FcIdle
    /\ EmaIdle
    /\ DashIdle

DdNext ==
    \/ \E value \in Capitals \cup CurveValues : DdPoint(value)
    \/ DdReturn

DdSpec == DdInit /\ [][DdNext]_vars

\* ------------------------------------------------------------------------
\* maxDrawdown properties
\* ------------------------------------------------------------------------
\* largest value among the first i points
RunningPeak(i) ==
    LET vs == {ddSeries[j].value : j \in 1..i}
    IN  CHOOSE v \in vs : \A u \in vs : FLe(u, v)
\* (value - running peak) / running peak at point i
DrawdownAt(i) == FDiv(FSub(ddSeries[i].value, RunningPeak(i)), RunningPeak(i))
NonDecreasing ==
    \A i \in 1..(Len(ddSeries) - 1) : FLe(ddSeries[i].value, ddSeries[i + 1].value)

\* C8: maxDrawdown returns the minimum over all points of
\* (value - running peak) / running peak; the result is <= 0, and it is 0
\* for every non-decreasing curve.
C8_MaxDrawdownIsMinRatio ==
    ddPc = "done"
        => /\ \E i \in 1..Len(ddSeries) : maxDd = DrawdownAt(i)
           /\ \A i \in 1..Len(ddSeries) : FLe(maxDd, DrawdownAt(i))
           /\ FLe(maxDd, FZero)
           /\ NonDecreasing => maxDd = FZero

C8_Witness ==
    /\ ddPc = "done"
    /\ Len(ddSeries) = 3
    /\ FLt(maxDd, FZero)
    /\ maxDd = DrawdownAt(2)
    /\ FLt(ddSeries[2].value, ddSeries[3].value)

\* ------------------------------------------------------------------------
\* generateMockHistory
\* ------------------------------------------------------------------------
\* periods = 200
MockPeriods == 200
\* the generator's modulus and multiplier
MockModulus == 2147483647
MockMultiplier == 16807

\* Array.from(symbol).reduce((acc, char) => acc + char.charCodeAt(0), 0)
RECURSIVE SumCodes(_)
SumCodes(chars) == IF chars = <<>> THEN 0 ELSE Head(chars) + SumCodes(Tail(chars))

\* seed, and the generator's first value: seed || 1
MockSeed(sym) == SumCodes(sym) % MockModulus
MockStart(sym) == IF MockSeed(sym) = 0 THEN 1 ELSE MockSeed(sym)

\* value = (value * 16807) % 2147483647.  The product stays below 2^53, so
\* binary64 computes it exactly; here it is evaluated without leaving 32 bits
\* (a*(v mod q) - r*(v div q), q = m div a, r = m mod a).
LcgNext(v) ==
    LET q == MockModulus \div MockMultiplier
        r == MockModulus % MockMultiplier
        t == MockMultiplier * (v % q) - r * (v \div q)
    IN  IF t > 0 THEN t ELSE t + MockModulus

\* n / d for integers 0 <= n < d below 2^31, rounded like any Number
\* division; computed bit by bit so that no intermediate leaves 32 bits
RECURSIVE BigNorm(_, _, _)
BigNorm(r, d, e) == IF r < d - r THEN BigNorm(2 * r, d, e - 1) ELSE <<r, e>>
RECURSIVE BigBits(_, _, _, _)
BigBits(r, d, q, k) ==
    IF k = 0 THEN <<q, r>>
    ELSE IF r >= d - r THEN BigBits(r - (d - r), d, 2 * q + 1, k - 1)
    ELSE BigBits(2 * r, d, 2 * q, k - 1)
FBigRatio(n, d) ==
    IF n = 0 THEN FZero
    ELSE LET nm == BigNorm(n, d, 0)
             qr == BigBits(nm[1], d, 0, MantBits)
             q == qr[1]
             r == qr[2]
             up == (r > d - r) \/ (r = d - r /\ q % 2 = 1)
             q2 == IF up THEN q + 1 ELSE q
             e == nm[2] - MantBits
         IN  IF q2 = 2^MantBits
             THEN [k |-> "fin", s |-> 1, m |-> 2^(MantBits - 1), e |-> e + 1]
             ELSE [k |-> "fin", s |-> 1, m |-> q2, e |-> e]

\* rand(): (value - 1) / 2147483646 for the generator value v
RandOf(v) == FBigRatio(v - 1, MockModulus - 1)

\* Math.round of a positive finite Number
FRound(a) ==
    IF a.e >= 0 \/ a.m = 0 THEN a
    ELSE LET den == 2^(-a.e)
             q == a.m \div den
             r == a.m % den
         IN  FInt(IF 2 * r >= den THEN q + 1 ELSE q)

\* Math.max(a, b)
FMax(a, b) == IF FGt(b, a) THEN b ELSE a

\* getDay() of the date i days before a day whose getDay() is dow
DayOfWeek(dow, i) == (dow + 7 * MockPeriods - i) % 7
IsWeekend(d) == d = 0 \/ d = 6

\* one iteration of the for loop of generateMockHistory at counter i, on the
\* loop state [v: generator value, price, rows].  A row keeps the fields
\* computeSignals reads (date as days relative to today, close, volume,
\* source); open, high and low only advance the generator.
MockStep(st, i, dow) ==
    IF IsWeekend(DayOfWeek(dow, i)) THEN st
    ELSE LET v1 == LcgNext(st.v)
             change == FMul(FSub(RandOf(v1), FRat(1, 2)), FInt(2))
             price2 == FMax(FInt(5),
                            FMul(st.price, FAdd(FInt(1), FMul(change, FRat(1, 100)))))
             v5 == LcgNext(LcgNext(LcgNext(LcgNext(v1))))
             volume == FRound(FAdd(FInt(2000000), FMul(RandOf(v5), FInt(4000000))))
             row == [date |-> -i, close |-> price2, volume |-> volume,
                     source |-> "synthetic"]
         IN  [v |-> v5, price |-> price2, rows |-> Append(st.rows, row)]

\* the iterations with counters hi, hi - 1, ..., lo in that order
RECURSIVE MockLoop(_, _, _, _)
MockLoop(lo, hi, dow, st) ==
    IF lo = hi THEN MockStep(st, lo, dow)
    ELSE LET mid == (lo + hi) \div 2
             upper == MockLoop(mid + 1, hi, dow, st)
         IN  IF upper.v > 0 THEN MockLoop(lo, mid, dow, upper) ELSE upper

\* generateMockHistory(symbol) on a day whose getDay() is dow
GenerateMockHistory(sym, dow) ==
    LET v1 == LcgNext(MockStart(sym))
        price == FAdd(FInt(100), FMul(RandOf(v1), FInt(20)))
    IN  MockLoop(0, MockPeriods - 1, dow, [v |-> v1, price |-> price, rows |-> <<>>]).rows

\* ------------------------------------------------------------------------
\* computeSignals: fetches and fallbacks
\* ------------------------------------------------------------------------
Symbols == {<<65>>, <<83, 80, 89>>}

\* what fetchYahooHistory resolves to: rows of one provider ("yahoo", or
\* "google" from its own fallback), close and volume possibly null; Yahoo may
\* also resolve to no rows at all
ProviderCloses == {FNull, FInt(7), FInt(14)}
ProviderVolumes == {FNull, FInt(100)}
ProviderRows(src) ==
    UNION {{[i \in 1..n |-> [date |-> i, close |-> f[i][1], volume |-> f[i][2],
                             source |-> src]]
              : f \in [1..n -> ProviderCloses \X ProviderVolumes]}
             : n \in 1..MaxHistory}
HistoryOutcomes ==
    {[failed |-> TRUE, rows |-> <<>>], [failed |-> FALSE, rows |-> <<>>]}
    \cup {[failed |-> FALSE, rows |-> h] : h \in ProviderRows("yahoo") \cup ProviderRows("google")}

\* what fetchQuote resolves to
ProviderQuotes(sym) ==
    {[symbol |-> sym, regularMarketPrice |-> p, regularMarketPreviousClose |-> FInt(7),
      regularMarketChangePercent |-> ChangePct(p, FInt(7)), marketCap |-> FInt(1000),
      averageDailyVolume10Day |-> FInt(100)] : p \in {FInt(7), FInt(14)}}
QuoteOutcomes(sym) ==
    {[failed |-> TRUE, quote |-> <<>>]}
    \cup {[failed |-> FALSE, quote |-> <<q>>] : q \in ProviderQuotes(sym)}

\* what fetchNews resolves to
NewsOutcomes ==
    {[failed |-> TRUE, items |-> <<>>], [failed |-> FALSE, items |-> <<>>],
     [failed |-> FALSE, items |-> <<"headline">>]}

\* history.slice(-10)
LastTen(h) == SubSeq(h, IF Len(h) > 10 THEN Len(h) - 9 ELSE 1, Len(h))

\* rows.reduce((acc, row) => acc + (row.volume ?? 0), 0)
RECURSIVE SumVolumes(_, _)
SumVolumes(rows, acc) ==
    IF rows = <<>> THEN acc
    ELSE SumVolumes(Tail(rows),
                    FAdd(acc, IF Head(rows).volume = FNull THEN FZero ELSE Head(rows).volume))

\* mutant of SynthQuote: the previous close is read from the latest bar
SynthQuoteLatestAsPrevious(sym, h) ==
    LET latest == h[Len(h)]
    IN  [symbol |-> sym,
         regularMarketPrice |-> latest.close,
         regularMarketPreviousClose |-> latest.close,
         regularMarketChangePercent |->
             IF Truthy(latest.close) THEN ChangePct(latest.close, latest.close) ELSE FNull,
         marketCap |-> FNull,
         averageDailyVolume10Day |->
             FDiv(SumVolumes(LastTen(h), FZero),
                  FInt(IF Len(LastTen(h)) > 1 THEN Len(LastTen(h)) ELSE 1))]

\* the quote computeSignals builds from a nonempty history when it has none
SynthQuote(sym, h) ==
    LET latest == h[Len(h)]
        prevClose == IF Len(h) >= 2 THEN h[Len(h) - 1].close ELSE FNull
    IN  [symbol |-> sym,
         regularMarketPrice |-> latest.close,
         regularMarketPreviousClose |-> prevClose,
         regularMarketChangePercent |->
             IF Truthy(latest.close) /\ Truthy(prevClose)
             THEN ChangePct(latest.close, prevClose) ELSE FNull,
         marketCap |-> FNull,
         averageDailyVolume10Day |->
             FDiv(SumVolumes(LastTen(h), FZero),
                  FInt(IF Len(LastTen(h)) > 1 THEN Len(LastTen(h)) ELSE 1))]

\* mutant of AggThrows: a history of a single bar is refused as well
AggThrowsBelowTwoBars(h) == Len(h) < 2

\* if (!history.length) throw
AggThrows(h) == Len(h) = 0

NoHistoryMessage == "No historical data available for the requested symbol."

\* the fields of the returned object that come from the fetches; the other
\* fields are computed from history and the options alone
AggResultOf(sym, h, q, nw) ==
    [symbol |-> sym,
     quote |-> q,
     latestClose |-> h[Len(h)].close,
     history |-> h,
     news |-> nw,
     dataSource |-> h[1].source]

\* the code from the history check before the pipeline to the return
AggFinish(h, q, nw) ==
    IF AggThrows(h)
    THEN /\ aggPc' = "threw"
         /\ aggError' = NoHistoryMessage
         /\ aggResult' = <<>>
    ELSE /\ aggPc' = "returned"
         /\ aggResult' = <<AggResultOf(symbol, h, q, nw)>>
         /\ aggError' = aggError

\* continuation of "await fetchYahooHistory": catch, synthetic fallback, and
\* the call of fetchQuote
AggHistoryResolved(outcome, dow) ==
    /\ aggPc = "history"
    /\ LET fetched == IF outcome.failed THEN <<>> ELSE outcome.rows
           fallback == Len(fetched) = 0
       IN  /\ history' = IF fallback THEN GenerateMockHistory(symbol, dow) ELSE fetched
           /\ today' = IF fallback THEN dow ELSE today
           /\ histFetch' = IF outcome.failed THEN "fail"
                           ELSE IF fallback THEN "empty" ELSE "ok"
    /\ aggPc' = "quote"
    /\ UNCHANGED <<symbol, includeNews, quote, news, quoteFetch, newsFetch,
                   aggResult, aggError, nonAggVars>>

\* continuation of "await fetchQuote": catch, synthesized quote, and either
\* the call of fetchNews or, without news, the rest of the function
AggQuoteResolved(outcome) ==
    /\ aggPc = "quote"
    /\ LET q0 == IF outcome.failed THEN <<>> ELSE outcome.quote
           q1 == IF q0 = <<>> /\ Len(history) > 0
                 THEN <<SynthQuote(symbol, history)>> ELSE q0
       IN  /\ quote' = q1
           /\ quoteFetch' = IF outcome.failed THEN "fail" ELSE "ok"
           /\ IF includeNews
              THEN /\ aggPc' = "news"
                   /\ UNCHANGED <<newsFetch, aggResult, aggError>>
              ELSE /\ newsFetch' = "skipped"
                   /\ AggFinish(history, q1, news)
    /\ UNCHANGED <<symbol, includeNews, today, history, news, histFetch, nonAggVars>>

\* continuation of "await fetchNews": catch, then the rest of the function
AggNewsResolved(outcome) ==
    /\ aggPc = "news"
    /\ LET nw == IF outcome.failed THEN <<>> ELSE outcome.items
       IN  /\ news' = nw
           /\ newsFetch' = IF outcome.failed THEN "fail" ELSE "ok"
           /\ AggFinish(history, quote, nw)
    /\ UNCHANGED <<symbol, includeNews, today, history, quote, histFetch,
                   quoteFetch, nonAggVars>>

\* computeSignals(symbol, options) up to its first await
AggInit ==
    /\ symbol \in Symbols
    /\ includeNews \in BOOLEAN
    /\ today = -1
    /\ history = <<>>
    /\ quote = <<>>
    /\ news = <<>>
    /\ histFetch = "pending"
    /\ quoteFetch = "pending"
    /\ newsFetch = "pending"
    /\ aggResult = <<>>
    /\ aggError = ""
    /\ aggPc = "history"
    /\ SimIdle
    /\ DdIdle
    /\ InsIdle
    /\ IndIdle
    /\ FcIdle
    /\ EmaIdle
    /\ DashIdle

AggNext ==
    \/ \E outcome \in HistoryOutcomes, dow \in 0..6 : AggHistoryResolved(outcome, dow)
    \/ \E outcome \in QuoteOutcomes(symbol) : AggQuoteResolved(outcome)
    \/ \E outcome \in NewsOutcomes : AggNewsResolved(outcome)

AggSpec == AggInit /\ [][AggNext]_vars

\* ------------------------------------------------------------------------
\* Properties of computeSignals
\* ------------------------------------------------------------------------
AggTerminal == aggPc \in {"returned", "threw"}

\* volumes of bars from..to added left to right, a null volume counting 0
RECURSIVE VolumeSum(_, _, _)
VolumeSum(h, from, to) ==
    IF to < from THEN FZero
    ELSE FAdd(VolumeSum(h, from, to - 1),
              IF h[to].volume = FNull THEN FZero ELSE h[to].volume)

\* the quote the specification describes for a history h of n >= 1 bars
QuoteFromLastTwoBars(sym, h) ==
    LET n == Len(h)
        first == IF n > 10 THEN n - 9 ELSE 1
        last == h[n].close
        prev == IF n >= 2 THEN h[n - 1].close ELSE FNull
    IN  [symbol |-> sym,
         regularMarketPrice |-> last,
         regularMarketPreviousClose |-> prev,
         regularMarketChangePercent |->
             IF Truthy(last) /\ Truthy(prev)
             THEN FMul(FDiv(FSub(last, prev), prev), FInt(100)) ELSE FNull,
         marketCap |-> FNull,
         averageDailyVolume10Day |-> FDiv(VolumeSum(h, first, n), FInt(n - first + 1))]

\* C9: whatever the three fetches do, computeSignals ends by returning a
\* result. After a failed or empty history fetch the result's history is the
\* synthetic series of the symbol (every bar and dataSource "synthetic"); after
\* a failed quote fetch its quote is the one synthesized from the last two
\* history bars; after a failed news fetch its news list is empty, and the
\* step that handles the news outcome copies symbol, history, quote,
\* latestClose and dataSource from the state before the news was known.
C9_FailedFetchesAreReplaced ==
    [][ /\ aggPc' # "threw"
        /\ aggPc' = "returned" =>
             /\ Len(aggResult') = 1
             /\ Len(aggResult'[1].history) >= 1
             /\ aggResult'[1].symbol = symbol'
             /\ histFetch' \in {"fail", "empty"} =>
                  /\ aggResult'[1].history = GenerateMockHistory(symbol', today')
                  /\ \A i \in 1..Len(aggResult'[1].history) :
                        aggResult'[1].history[i].source = "synthetic"
                  /\ aggResult'[1].dataSource = "synthetic"
             /\ histFetch' = "ok" => aggResult'[1].dataSource \in {"yahoo", "google"}
             /\ quoteFetch' = "fail" =>
                  aggResult'[1].quote =
                      <<QuoteFromLastTwoBars(symbol', aggResult'[1].history)>>
             /\ newsFetch' = "fail" => aggResult'[1].news = <<>>
        /\ (aggPc = "news" /\ aggPc' = "returned") =>
             /\ aggResult'[1].symbol = symbol
             /\ aggResult'[1].history = history
             /\ aggResult'[1].quote = quote
             /\ aggResult'[1].latestClose = history[Len(history)].close
             /\ aggResult'[1].dataSource = history[1].source
      ]_vars

\* all three fetches failed and a result was returned
C9_Witness ==
    /\ aggPc = "returned"
    /\ histFetch = "fail"
    /\ quoteFetch = "fail"
    /\ newsFetch = "fail"
    /\ Len(aggResult[1].history) >= 2

\* C10: a finished call has raised 'No historical data available ...' exactly
\* when its history is empty after the synthetic fallback; the error exists
\* only in a call that raised, which by then has seen the outcome of the
\* quote fetch and of the news fetch (or skipped it); a call whose history is
\* not empty returns, also when the quote and the news fetch failed.
C10_ErrorOnlyForEmptyHistory ==
    /\ AggTerminal => (aggPc = "threw" <=> Len(history) = 0)
    /\ aggError \in {"", NoHistoryMessage}
    /\ aggError # "" <=> aggPc = "threw"
    /\ aggPc = "threw" => quoteFetch # "pending" /\ newsFetch # "pending"
    /\ (AggTerminal /\ Len(history) > 0) => (aggPc = "returned" /\ Len(aggResult) = 1)

\* a one-bar provider history, quote and news both failed, result returned
C10_Witness ==
    /\ aggPc = "returned"
    /\ aggError = ""
    /\ histFetch = "ok"
    /\ Len(history) = 1
    /\ quoteFetch = "fail"
    /\ newsFetch = "fail"

\* ------------------------------------------------------------------------
\* GET /insights
\* ------------------------------------------------------------------------
\* query strings as character codes: "", "A"
RequestSymbols == {<<>>, <<<<>>>>, <<<<65>>>>}
\* absent, "0", "-5", "10"
RequestCapitals == {<<>>, <<<<48>>>>, <<<<45, 53>>>>, <<<<49, 48>>>>}

\* truthiness of a query value: present and not the empty string
QueryTruthy(q) == q # <<>> /\ q[1] # <<>>

\* value of a string of decimal digits, most significant first
RECURSIVE DigitsValue(_, _)
DigitsValue(codes, acc) ==
    IF codes = <<>> THEN acc
    ELSE DigitsValue(Tail(codes), 10 * acc + (Head(codes) - 48))

AllDigits(codes) == codes # <<>> /\ \A i \in 1..Len(codes) : codes[i] \in 48..57

\* Number(text) for the texts a query carries: "" is 0, an optionally signed
\* run of digits is its value, anything else is NaN
StringToNumber(codes) ==
    IF codes = <<>> THEN FZero
    ELSE IF AllDigits(codes) THEN FInt(DigitsValue(codes, 0))
    ELSE IF Head(codes) = 45 /\ AllDigits(Tail(codes))
         THEN FNeg(FInt(DigitsValue(Tail(codes), 0)))
    ELSE FNaN

\* computeSignals' default for options.initialCapital
DefaultCapital == FInt(10000)

SymbolRequiredMessage == "Query parameter \"symbol\" is required."

\* the route handler up to its await: the symbol check, the options, and
\* the start of computeSignals (includeNews keeps its default, true)
InsHandle ==
    /\ insPc = "handler"
    /\ IF ~QueryTruthy(reqSymbol)
       THEN /\ resStatus' = 400
            /\ resBody' = <<[error |-> SymbolRequiredMessage, initialCapital |-> FNull]>>
            /\ insPc' = "responded"
            /\ UNCHANGED <<optCapital, aggVars>>
       ELSE /\ optCapital' = IF QueryTruthy(reqCapital)
                             THEN StringToNumber(reqCapital[1])
                             ELSE DefaultCapital
            /\ symbol' = reqSymbol[1]
            /\ includeNews' = TRUE
            /\ aggPc' = "history"
            /\ insPc' = "computing"
            /\ UNCHANGED <<today, history, quote, news, histFetch, quoteFetch,
                           newsFetch, aggResult, aggError, resStatus, resBody>>
    /\ UNCHANGED <<reqSymbol, reqCapital, nonInsAggVars>>

\* the handler after "await computeSignals": res.json(payload), or the catch
\* with status 500; of the payload the body keeps
\* simulationSummary.initialCapital
InsRespond ==
    /\ insPc = "computing"
    /\ aggPc \in {"returned", "threw"}
    /\ IF aggPc = "returned"
       THEN /\ resStatus' = 200
            /\ resBody' = <<[error |-> "", initialCapital |-> optCapital]>>
       ELSE /\ resStatus' = 500
            /\ resBody' = <<[error |-> aggError, initialCapital |-> FNull]>>
    /\ insPc' = "responded"
    /\ UNCHANGED <<reqSymbol, reqCapital, optCapital, aggVars, nonInsAggVars>>

InsInit ==
    /\ reqSymbol \in RequestSymbols
    /\ reqCapital \in RequestCapitals
    /\ optCapital = FNull
    /\ resStatus = 0
    /\ resBody = <<>>
    /\ insPc = "handler"
    /\ AggIdle
    /\ SimIdle
    /\ DdIdle
    /\ IndIdle
    /\ FcIdle
    /\ EmaIdle
    /\ DashIdle

InsNext ==
    \/ InsHandle
    \/ \E outcome \in HistoryOutcomes, dow \in 0..6 : AggHistoryResolved(outcome, dow)
    \/ \E outcome \in QuoteOutcomes(symbol) : AggQuoteResolved(outcome)
    \/ \E outcome \in NewsOutcomes : AggNewsResolved(outcome)
    \/ InsRespond

InsSpec == InsInit /\ [][InsNext]_vars

\* C11: a request without a symbol, or whose initialCapital is "0" or "-5",
\* never reaches computeSignals: no capital is handed on, and its response
\* has status 400 and an error message.
C11_InvalidRequestRejected ==
    (insPc # "idle" /\ (~QueryTruthy(reqSymbol) \/ reqCapital \in {<<<<48>>>>, <<<<45, 53>>>>}))
        => /\ insPc \in {"handler", "responded"}
           /\ optCapital = FNull
           /\ aggPc = "idle"
           /\ insPc = "responded" => (resStatus = 400 /\ resBody[1].error # "")

\* ------------------------------------------------------------------------
\* Technical indicators
\* ------------------------------------------------------------------------
\* Arrays are sequences: index i of the source is position i + 1 here.

\* toNumber: Number(value) if that is finite, else null; Number(null) is 0
ToNumber(v) ==
    IF v.k = "null" THEN FZero
    ELSE IF v.k = "fin" THEN v
    ELSE FNull

GetClose(row) == ToNumber(row.close)
GetHigh(row) == ToNumber(row.high)
GetLow(row) == ToNumber(row.low)
GetVolume(row) == ToNumber(row.volume)

\* value == null
IsNullish(v) == v.k = "null"

\* the Number an arithmetic operator or Math function makes of its operand
Num(v) == IF v.k = "null" THEN FZero ELSE v

\* Math.max(a, b), Math.min(a, b), Math.abs(a)
MathMax(a, b) ==
    IF Num(a).k = "nan" \/ Num(b).k = "nan" THEN FNaN
    ELSE IF FGt(Num(b), Num(a)) THEN Num(b) ELSE Num(a)
MathMin(a, b) ==
    IF Num(a).k = "nan" \/ Num(b).k = "nan" THEN FNaN
    ELSE IF FLt(Num(b), Num(a)) THEN Num(b) ELSE Num(a)
MathAbs(a) == IF Num(a).k \in {"fin", "inf"} /\ Num(a).s = -1 THEN FNeg(Num(a)) ELSE Num(a)

\* Math.max(...values), Math.min(...values)
RECURSIVE MaxOf(_)
MaxOf(values) ==
    IF values = <<>> THEN FInf(-1) ELSE MathMax(Head(values), MaxOf(Tail(values)))
RECURSIVE MinOf(_)
MinOf(values) ==
    IF values = <<>> THEN FInf(1) ELSE MathMin(Head(values), MinOf(Tail(values)))

\* largest r with r * r <= n, for lo * lo <= n < hi * hi
RECURSIVE IntSqrt(_, _, _)
IntSqrt(n, lo, hi) ==
    IF hi - lo <= 1 THEN lo
    ELSE LET mid == (lo + hi) \div 2
         IN  IF mid * mid <= n THEN IntSqrt(n, mid, hi) ELSE IntSqrt(n, lo, mid)

\* Math.sqrt(a), correctly rounded
MathSqrt(a) ==
    IF Num(a).k = "nan" THEN FNaN
    ELSE IF Num(a).k = "inf" THEN (IF Num(a).s = 1 THEN FInf(1) ELSE FNaN)
    ELSE IF Num(a).m = 0 THEN FZero
    ELSE IF Num(a).s = -1 THEN FNaN
    ELSE LET x == Num(a)
             k == IF (x.e - (MantBits + 2)) % 2 = 0 THEN MantBits + 2 ELSE MantBits + 3
             n == x.m * 2^k
             r == IntSqrt(n, 0, 2^(MantBits + 2))
         IN  IF r * r = n THEN RoundQ(1, r, 1, (x.e - k) \div 2)
             ELSE RoundQ(1, 2 * r + 1, 2, (x.e - k) \div 2)

\* slice.reduce((acc, value) => acc + value, 0)
RECURSIVE SumFrom(_, _)
SumFrom(values, acc) ==
    \* acc.k is read first, so each partial sum is computed before the next step
    IF values = <<>> \/ acc.k = "none" THEN acc
    ELSE SumFrom(Tail(values), FAdd(acc, Num(Head(values))))

\* mutant of MeanOf: the divisor is one less than the number of values
MeanOfOneLess(slice) == FDiv(SumFrom(slice, FZero), FInt(Len(slice) - 1))

\* the reducer of calculateSMA and of %D: sum / slice.length
MeanOf(slice) == FDiv(SumFrom(slice, FZero), FInt(Len(slice)))

\* mutant of RollingMean: the positions before the first full window are
\* dropped instead of filled with null
RollingMeanComputedOnly(values, window) ==
    [j \in 1..(IF Len(values) >= window THEN Len(values) - window + 1 ELSE 0) |->
        MeanOf(SubSeq(values, j, j + window - 1))]

\* rolling(values, window, reducer) with the mean as reducer
RollingMean(values, window) ==
    [i \in 1..Len(values) |->
        IF i < window THEN FNull ELSE MeanOf(SubSeq(values, i + 1 - window, i))]

\* mutant of EmaStep: a gap in the input leaves a gap in the output
EmaStepGapOnNull(value, previous, multiplier) ==
    IF IsNullish(value) THEN FNull
    ELSE IF IsNullish(previous) THEN value
    ELSE FAdd(FMul(FSub(value, previous), multiplier), previous)

\* one pass of the loop body of ema: the value stored in result[i], which is
\* also the next value of previous
EmaStep(value, previous, multiplier) ==
    IF IsNullish(value) THEN previous
    ELSE IF IsNullish(previous) THEN value
    ELSE FAdd(FMul(FSub(value, previous), multiplier), previous)

\* ema(values, period): the loop from position i on
RECURSIVE EmaLoop(_, _, _, _, _)
\* the rest of the loop once position i has produced next
EmaLoopFrom(values, i, next, multiplier, result) ==
    EmaLoop(values, i + 1, next, multiplier, Append(result, next))

EmaLoop(values, i, previous, multiplier, result) ==
    IF i > Len(values) THEN result
    ELSE EmaLoopFrom(values, i, EmaStep(values[i], previous, multiplier), multiplier, result)

Ema(values, period) ==
    EmaLoop(values, 1, FNull, FDiv(FInt(2), FInt(period + 1)), <<>>)

ClosesOf(pts) == [i \in 1..Len(pts) |-> GetClose(pts[i])]
HighsOf(pts) == [i \in 1..Len(pts) |-> GetHigh(pts[i])]
LowsOf(pts) == [i \in 1..Len(pts) |-> GetLow(pts[i])]

CalculateSMA(pts, window) == RollingMean(ClosesOf(pts), window)

\* 100 - 100 / (1 + rs) with rs = lossAvg === 0 ? 100 : gainAvg / lossAvg
RsiValue(gainAvg, lossAvg) ==
    LET rs == IF FEq(lossAvg, FZero) THEN FInt(100) ELSE FDiv(gainAvg, lossAvg)
    IN  FSub(FInt(100), FDiv(FInt(100), FAdd(FInt(1), rs)))

\* the loop of calculateRSI from index i (position i + 1) on; besides result
\* it returns, per position, the lossAvg the position's value was computed
\* from (null where none was computed)
RECURSIVE RsiLoop(_, _, _, _, _, _, _)
RsiLoop(closes, window, i, gainAvg, lossAvg, result, losses) ==
    IF i >= Len(closes) THEN [result |-> result, losses |-> losses]
    ELSE LET change == FSub(Num(closes[i + 1]), Num(closes[i]))
             gain == IF FGt(change, FZero) THEN change ELSE FZero
             loss == IF FLt(change, FZero) THEN FNeg(change) ELSE FZero
         IN  IF i <= window
             THEN LET g1 == FAdd(gainAvg, gain)
                      l1 == FAdd(lossAvg, loss)
                      g2 == IF i = window THEN FDiv(g1, FInt(window)) ELSE g1
                      l2 == IF i = window THEN FDiv(l1, FInt(window)) ELSE l1
                  IN  RsiLoop(closes, window, i + 1, g2, l2,
                              [result EXCEPT ![i + 1] =
                                  IF i = window THEN RsiValue(g2, l2) ELSE @],
                              [losses EXCEPT ![i + 1] = IF i = window THEN l2 ELSE @])
             ELSE LET g2 == FDiv(FAdd(FMul(gainAvg, FInt(window - 1)), gain), FInt(window))
                      l2 == FDiv(FAdd(FMul(lossAvg, FInt(window - 1)), loss), FInt(window))
                  IN  RsiLoop(closes, window, i + 1, g2, l2,
                              [result EXCEPT ![i + 1] = RsiValue(g2, l2)],
                              [losses EXCEPT ![i + 1] = l2])

RsiRun(pts, window) ==
    RsiLoop(ClosesOf(pts), window, 1, FZero, FZero,
            [i \in 1..Len(pts) |-> FNull], [i \in 1..Len(pts) |-> FNull])

CalculateRSI(pts, window) == RsiRun(pts, window).result

\* expShort.map(...): the difference where both averages exist
MacdLine(expShort, expLong) ==
    [i \in 1..Len(expShort) |->
        IF IsNullish(expShort[i]) \/ IsNullish(expLong[i]) THEN FNull
        ELSE FSub(expShort[i], expLong[i])]

MacdWithSignal(macd, signalWindow) == [macd |-> macd, signal |-> Ema(macd, signalWindow)]

CalculateMACD(pts, shortWindow, longWindow, signalWindow) ==
    MacdWithSignal(MacdLine(Ema(ClosesOf(pts), shortWindow), Ema(ClosesOf(pts), longWindow)),
                   signalWindow)

\* slice.reduce((acc, close) => acc + (close - mean) ** 2, 0)
RECURSIVE SquaresFrom(_, _, _)
SquaresFrom(values, mean, acc) ==
    IF values = <<>> THEN acc
    ELSE LET d == FSub(Num(Head(values)), mean)
         IN  SquaresFrom(Tail(values), mean, FAdd(acc, FMul(d, d)))

\* stdDev at every position the loop of calculateBollingerBands computes,
\* null at the positions it skips
StdDevs(closes, sma, window) ==
    [i \in 1..Len(closes) |->
        IF i < window \/ IsNullish(sma[i]) THEN FNull
        ELSE MathSqrt(FDiv(SquaresFrom(SubSeq(closes, i + 1 - window, i), sma[i], FZero),
                           FInt(window)))]

\* { middle: sma, upper, lower } with mean +/- stdDev * numStdDev
BandsAround(sma, stdDev, numStdDev) ==
    [middle |-> sma,
     upper |-> [i \in 1..Len(sma) |->
                  IF IsNullish(stdDev[i]) THEN FNull
                  ELSE FAdd(sma[i], FMul(stdDev[i], FInt(numStdDev)))],
     lower |-> [i \in 1..Len(sma) |->
                  IF IsNullish(stdDev[i]) THEN FNull
                  ELSE FSub(sma[i], FMul(stdDev[i], FInt(numStdDev)))]]

CalculateBollingerBands(pts, window, numStdDev) ==
    BandsAround(CalculateSMA(pts, window),
                StdDevs(ClosesOf(pts), CalculateSMA(pts, window), window), numStdDev)

\* mutant of StochasticK: without the guard for an empty range
StochasticKUnguarded(close, rangeLow, rangeHigh) ==
    FMul(FDiv(FSub(Num(close), rangeLow), FSub(rangeHigh, rangeLow)), FInt(100))

\* percentK[i] from the close and the trailing range
StochasticK(close, rangeLow, rangeHigh) ==
    IF FEq(rangeHigh, rangeLow) THEN FZero
    ELSE FMul(FDiv(FSub(Num(close), rangeLow), FSub(rangeHigh, rangeLow)), FInt(100))

PercentK(highs, lows, closes, kWindow) ==
    [i \in 1..Len(closes) |->
        IF i < kWindow THEN FNull
        ELSE StochasticK(closes[i], MinOf(SubSeq(lows, i + 1 - kWindow, i)),
                         MaxOf(SubSeq(highs, i + 1 - kWindow, i)))]

PercentKWithD(percentK, dWindow) ==
    [percentK |-> percentK, percentD |-> RollingMean(percentK, dWindow)]

CalculateStochasticOscillator(pts, kWindow, dWindow) ==
    PercentKWithD(PercentK(HighsOf(pts), LowsOf(pts), ClosesOf(pts), kWindow), dWindow)

\* points.forEach of calculateVWAP from position i on
RECURSIVE VwapLoop(_, _, _, _, _)
VwapLoop(pts, i, cumulativeVolume, cumulativeTpv, result) ==
    IF i > Len(pts) THEN result
    ELSE LET volume == GetVolume(pts[i])
         IN  IF ~Truthy(volume)
             THEN VwapLoop(pts, i + 1, cumulativeVolume, cumulativeTpv, Append(result, FNull))
             ELSE LET typicalPrice ==
                          FDiv(FAdd(FAdd(Num(GetHigh(pts[i])), Num(GetLow(pts[i]))),
                                    Num(GetClose(pts[i]))), FInt(3))
                      cv == FAdd(cumulativeVolume, volume)
                      ct == FAdd(cumulativeTpv, FMul(typicalPrice, volume))
                  IN  VwapLoop(pts, i + 1, cv, ct,
                          Append(result, IF FGt(cv, FZero) THEN FDiv(ct, cv) ELSE FNull))

CalculateVWAP(pts) == VwapLoop(pts, 1, FZero, FZero, <<>>)

\* the first loop of calculateADX at position i >= 2: [tr, plusDM, minusDM]
AdxMoves(pts, i) ==
    LET high == Num(GetHigh(pts[i]))
        low == Num(GetLow(pts[i]))
        prevClose == Num(GetClose(pts[i - 1]))
        prevHigh == Num(GetHigh(pts[i - 1]))
        prevLow == Num(GetLow(pts[i - 1]))
        upMove == FSub(high, prevHigh)
        downMove == FSub(prevLow, low)
    IN  [plusDM |-> IF FGt(upMove, downMove) /\ FGt(upMove, FZero) THEN upMove ELSE FZero,
         minusDM |-> IF FGt(downMove, upMove) /\ FGt(downMove, FZero) THEN downMove ELSE FZero,
         tr |-> MathMax(MathMax(FSub(high, low), MathAbs(FSub(high, prevClose))),
                        MathAbs(FSub(low, prevClose)))]

TrList(pts) == [i \in 1..Len(pts) |-> IF i = 1 THEN FNull ELSE AdxMoves(pts, i).tr]
PlusDMList(pts) == [i \in 1..Len(pts) |-> IF i = 1 THEN FNull ELSE AdxMoves(pts, i).plusDM]
MinusDMList(pts) == [i \in 1..Len(pts) |-> IF i = 1 THEN FNull ELSE AdxMoves(pts, i).minusDM]

\* (smoothedDM[i] / trueRange) * 100
DirectionalIndicator(smoothedDM, trueRange) ==
    FMul(FDiv(Num(smoothedDM), trueRange), FInt(100))

\* Math.abs(pDI - mDI) / (pDI + mDI || 1) * 100
DirectionalIndex(pDI, mDI) ==
    FMul(FDiv(MathAbs(FSub(pDI, mDI)),
              IF Truthy(FAdd(pDI, mDI)) THEN FAdd(pDI, mDI) ELSE FInt(1)), FInt(100))

\* the second loop of calculateADX: plusDI, minusDI and dx, left null where
\* the smoothed true range is null or 0
DirectionalSeries(smoothedTR, smoothedPlusDM, smoothedMinusDM) ==
    [plusDI |-> [i \in 1..Len(smoothedTR) |->
                    IF ~Truthy(smoothedTR[i]) THEN FNull
                    ELSE DirectionalIndicator(smoothedPlusDM[i], smoothedTR[i])],
     minusDI |-> [i \in 1..Len(smoothedTR) |->
                    IF ~Truthy(smoothedTR[i]) THEN FNull
                    ELSE DirectionalIndicator(smoothedMinusDM[i], smoothedTR[i])],
     dx |-> [i \in 1..Len(smoothedTR) |->
                IF ~Truthy(smoothedTR[i]) THEN FNull
                ELSE DirectionalIndex(DirectionalIndicator(smoothedPlusDM[i], smoothedTR[i]),
                                      DirectionalIndicator(smoothedMinusDM[i], smoothedTR[i]))]]

AdxOf(series, period) ==
    [adx |-> Ema(series.dx, period), plusDI |-> series.plusDI, minusDI |-> series.minusDI]

CalculateADX(pts, period) ==
    AdxOf(DirectionalSeries(Ema(TrList(pts), period), Ema(PlusDMList(pts), period),
                            Ema(MinusDMList(pts), period)), period)

\* upper.map(...) of calculateBollingerBandwidth
BandwidthOf(bands) ==
    [i \in 1..Len(bands.upper) |->
        IF IsNullish(bands.upper[i]) \/ IsNullish(bands.lower[i])
           \/ IsNullish(bands.middle[i]) THEN FNull
        ELSE IF IsFin(FMul(FDiv(FSub(bands.upper[i], bands.lower[i]), bands.middle[i]),
                           FInt(100)))
        THEN FMul(FDiv(FSub(bands.upper[i], bands.lower[i]), bands.middle[i]), FInt(100))
        ELSE FNull]

CalculateBollingerBandwidth(pts, window, numStdDev) ==
    BandwidthOf(CalculateBollingerBands(pts, window, numStdDev))

\* ------------------------------------------------------------------------
\* backtestStrategy
\* ------------------------------------------------------------------------
Hold == [signal |-> "hold", numericSignal |-> 0]

\* mutant of BuySignal: the numeric signal of a buy is that of a sell
BuySignalNegative(diff, strong, medium) ==
    [signal |-> IF FGt(diff, strong) THEN "buy_strong"
                ELSE IF FGt(diff, medium) THEN "buy_medium" ELSE "buy_weak",
     numericSignal |-> -1]

\* label = 'buy_weak'; if (diff > strong) ...; else if (diff > medium) ...
BuySignal(diff, strong, medium) ==
    [signal |-> IF FGt(diff, strong) THEN "buy_strong"
                ELSE IF FGt(diff, medium) THEN "buy_medium" ELSE "buy_weak",
     numericSignal |-> 1]

SellSignal(diff, strong, medium) ==
    [signal |-> IF FGt(diff, strong) THEN "sell_strong"
                ELSE IF FGt(diff, medium) THEN "sell_medium" ELSE "sell_weak",
     numericSignal |-> -1]

\* getClose of the backtest module: Number(row.close)
BtCloses(pts) == [i \in 1..Len(pts) |-> Num(pts[i].close)]

\* default arguments of the indicator functions
SmaWindow == 20
RsiWindow == 14
MacdShortWindow == 12
MacdLongWindow == 26
MacdSignalWindow == 9
BollingerWindow == 20
BollingerStdDevs == 2
StochKWindow == 14
StochDWindow == 3
AdxPeriod == 14

\* mutant of SmaSignals: the average has to end strictly across the close
SmaSignalsStrictCross(closes, sma) ==
    [i \in 1..Len(closes) |->
        IF i = 1 THEN Hold
        ELSE IF IsNullish(sma[i - 1]) \/ IsNullish(sma[i]) THEN Hold
        ELSE IF FLt(sma[i - 1], closes[i - 1]) /\ FGt(sma[i], closes[i])
        THEN SellSignal(FSub(sma[i], closes[i]), FMul(closes[i], FRat(2, 100)),
                        FMul(closes[i], FRat(5, 1000)))
        ELSE IF FGt(sma[i - 1], closes[i - 1]) /\ FLt(sma[i], closes[i])
        THEN BuySignal(FSub(closes[i], sma[i]), FMul(closes[i], FRat(2, 100)),
                       FMul(closes[i], FRat(5, 1000)))
        ELSE Hold]

\* the loop of the 'sma' branch
SmaSignals(closes, sma) ==
    [i \in 1..Len(closes) |->
        IF i = 1 THEN Hold
        ELSE IF IsNullish(sma[i - 1]) \/ IsNullish(sma[i]) THEN Hold
        ELSE IF FLt(sma[i - 1], closes[i - 1]) /\ FGe(sma[i], closes[i])
        THEN SellSignal(FSub(sma[i], closes[i]), FMul(closes[i], FRat(2, 100)),
                        FMul(closes[i], FRat(5, 1000)))
        ELSE IF FGt(sma[i - 1], closes[i - 1]) /\ FLe(sma[i], closes[i])
        THEN BuySignal(FSub(closes[i], sma[i]), FMul(closes[i], FRat(2, 100)),
                       FMul(closes[i], FRat(5, 1000)))
        ELSE Hold]

\* the loop of the 'rsi' branch
RsiSignals(rsi) ==
    [i \in 1..Len(rsi) |->
        IF IsNullish(rsi[i]) THEN Hold
        ELSE IF FLt(rsi[i], FInt(30))
        THEN BuySignal(FSub(FInt(30), rsi[i]), FInt(10), FInt(5))
        ELSE IF FGt(rsi[i], FInt(70))
        THEN SellSignal(FSub(rsi[i], FInt(70)), FInt(10), FInt(5))
        ELSE Hold]

\* the loop of the 'macd' branch
MacdSignals(macd, signal) ==
    [i \in 1..Len(macd) |->
        IF i = 1 THEN Hold
        ELSE IF IsNullish(macd[i - 1]) \/ IsNullish(signal[i - 1])
                \/ IsNullish(macd[i]) \/ IsNullish(signal[i]) THEN Hold
        ELSE IF FLt(macd[i - 1], signal[i - 1]) /\ FGe(macd[i], signal[i])
        THEN BuySignal(FSub(macd[i], signal[i]), FRat(5, 10), FRat(1, 10))
        ELSE IF FGt(macd[i - 1], signal[i - 1]) /\ FLe(macd[i], signal[i])
        THEN SellSignal(FSub(signal[i], macd[i]), FRat(5, 10), FRat(1, 10))
        ELSE Hold]

\* the loop of the 'bollinger' branch
BollingerSignals(closes, upper, lower) ==
    [i \in 1..Len(closes) |->
        IF IsNullish(upper[i]) \/ IsNullish(lower[i]) THEN Hold
        ELSE IF FLt(closes[i], lower[i])
        THEN BuySignal(FSub(lower[i], closes[i]), FMul(closes[i], FRat(1, 100)),
                       FMul(closes[i], FRat(2, 1000)))
        ELSE IF FGt(closes[i], upper[i])
        THEN SellSignal(FSub(closes[i], upper[i]), FMul(closes[i], FRat(1, 100)),
                        FMul(closes[i], FRat(2, 1000)))
        ELSE Hold]

\* the loop of the 'stochastic' branch
StochasticSignals(k, d) ==
    [i \in 1..Len(k) |->
        IF i = 1 THEN Hold
        ELSE IF IsNullish(k[i - 1]) \/ IsNullish(d[i - 1])
                \/ IsNullish(k[i]) \/ IsNullish(d[i]) THEN Hold
        ELSE IF FLt(k[i - 1], d[i - 1]) /\ FGe(k[i], d[i]) /\ FLt(k[i], FInt(20))
        THEN BuySignal(FSub(FInt(20), k[i]), FInt(10), FInt(5))
        ELSE IF FGt(k[i - 1], d[i - 1]) /\ FLe(k[i], d[i]) /\ FGt(k[i], FInt(80))
        THEN SellSignal(FSub(k[i], FInt(80)), FInt(10), FInt(5))
        ELSE Hold]

\* backtestStrategy(points, indicator).signals
BacktestStrategy(pts, indicator) ==
    IF indicator = "sma" THEN SmaSignals(BtCloses(pts), CalculateSMA(pts, SmaWindow))
    ELSE IF indicator = "rsi" THEN RsiSignals(CalculateRSI(pts, RsiWindow))
    ELSE IF indicator = "macd"
    THEN MacdSignals(
            CalculateMACD(pts, MacdShortWindow, MacdLongWindow, MacdSignalWindow).macd,
            CalculateMACD(pts, MacdShortWindow, MacdLongWindow, MacdSignalWindow).signal)
    ELSE IF indicator = "bollinger"
    THEN BollingerSignals(
            BtCloses(pts),
            CalculateBollingerBands(pts, BollingerWindow, BollingerStdDevs).upper,
            CalculateBollingerBands(pts, BollingerWindow, BollingerStdDevs).lower)
    ELSE IF indicator = "stochastic"
    THEN StochasticSignals(
            CalculateStochasticOscillator(pts, StochKWindow, StochDWindow).percentK,
            CalculateStochasticOscillator(pts, StochKWindow, StochDWindow).percentD)
    ELSE [i \in 1..Len(pts) |-> Hold]

\* ------------------------------------------------------------------------
\* Indicator inputs and calls
\* ------------------------------------------------------------------------
Bar(i, high, low, close, volume) ==
    [date |-> i, high |-> high, low |-> low, close |-> close, volume |-> volume]

\* bar i (from 1) of each family of histories
\* closes 100, 101, ... with a range of one above and below
RisingBar(i) == Bar(i, FInt(100 + i), FInt(98 + i), FInt(99 + i), FInt(100))
\* closes 127, 126, ... with high = low = close
FallingBar(i) == Bar(i, FInt(128 - i), FInt(128 - i), FInt(128 - i), FInt(100))
\* a constant price, never any volume
FlatBar(i) == Bar(i, FInt(7), FInt(7), FInt(7), FZero)
\* closes alternating 7, 14; volume 100, then 0, then null
ZigzagBar(i) ==
    Bar(i, FInt(14), FInt(7), IF i % 2 = 1 THEN FInt(7) ELSE FInt(14),
        IF i % 3 = 1 THEN FInt(100) ELSE IF i % 3 = 2 THEN FZero ELSE FNull)
\* bars whose low and volume the provider left null, closes above the high
SparseBar(i) == Bar(i, FInt(7), FNull, IF i % 2 = 1 THEN FInt(7) ELSE FInt(14), FNull)
\* 22 falling closes 121 .. 100, then a jump to 127
VeeBar(i) ==
    IF i <= 22 THEN Bar(i, FInt(122 - i), FInt(122 - i), FInt(122 - i), FInt(100))
    ELSE Bar(i, FInt(127), FInt(127), FInt(127), FInt(100))

\* a constant close for SmaWindow - 1 bars, then the closes of tail, the last
\* of them repeated
CrossBar(base, tail, i) ==
    IF i < SmaWindow THEN Bar(i, FInt(base), FInt(base), FInt(base), FInt(100))
    ELSE IF i - SmaWindow + 1 <= Len(tail)
    THEN Bar(i, FInt(tail[i - SmaWindow + 1]), FInt(tail[i - SmaWindow + 1]),
             FInt(tail[i - SmaWindow + 1]), FInt(100))
    ELSE Bar(i, FInt(tail[Len(tail)]), FInt(tail[Len(tail)]), FInt(tail[Len(tail)]),
             FInt(100))

\* histories whose close crosses its moving average right after the average
\* becomes defined, by a wide, a narrow and a zero gap, downwards and upwards
CrossShapes ==
    {[base |-> 8, tail |-> <<12, 4, 12>>], [base |-> 8, tail |-> <<10, 8>>],
     [base |-> 8, tail |-> <<27, 9>>], [base |-> 8, tail |-> <<6, 8>>],
     [base |-> 20, tail |-> <<1, 19>>]}

IndInputs ==
    UNION {{[i \in 1..n |-> RisingBar(i)], [i \in 1..n |-> FallingBar(i)],
            [i \in 1..n |-> FlatBar(i)], [i \in 1..n |-> ZigzagBar(i)],
            [i \in 1..n |-> SparseBar(i)], [i \in 1..n |-> VeeBar(i)]}
             : n \in 0..MaxIndBars}
    \cup {[i \in 1..n |-> CrossBar(shape.base, shape.tail, i)] :
             n \in SmaWindow..MaxIndBars, shape \in CrossShapes}

SmaWindows == {1, 2, 3, SmaWindow}
BacktestIndicators == {"sma", "rsi", "macd", "bollinger", "stochastic", "vwap"}

\* one call of a function on indBars; out is the record of the series returned
IndReturn(call, window, indicator, out) ==
    /\ indPc = "input"
    /\ indCall' = call
    /\ indWindow' = window
    /\ btIndicator' = indicator
    /\ indOut' = out
    /\ indPc' = "done"
    /\ UNCHANGED <<indBars, nonIndVars>>

CallSMA(window) == IndReturn("sma", window, "", [sma |-> CalculateSMA(indBars, window)])
CallRSI == IndReturn("rsi", 0, "", [rsi |-> CalculateRSI(indBars, RsiWindow)])
CallMACD ==
    IndReturn("macd", 0, "",
              CalculateMACD(indBars, MacdShortWindow, MacdLongWindow, MacdSignalWindow))
CallBollingerBands ==
    IndReturn("bollinger", 0, "",
              CalculateBollingerBands(indBars, BollingerWindow, BollingerStdDevs))
CallBollingerBandwidth ==
    IndReturn("bandwidth", 0, "",
              [bandwidth |->
                  CalculateBollingerBandwidth(indBars, BollingerWindow, BollingerStdDevs)])
CallStochastic ==
    IndReturn("stochastic", 0, "",
              CalculateStochasticOscillator(indBars, StochKWindow, StochDWindow))
CallVWAP == IndReturn("vwap", 0, "", [vwap |-> CalculateVWAP(indBars)])
CallADX == IndReturn("adx", 0, "", CalculateADX(indBars, AdxPeriod))
CallBacktest(indicator) ==
    IndReturn("backtest", 0, indicator, [signals |-> BacktestStrategy(indBars, indicator)])

IndInit ==
    /\ indBars \in IndInputs
    /\ indCall = ""
    /\ indWindow = 0
    /\ btIndicator = ""
    /\ indOut = <<>>
    /\ indPc = "input"
    /\ SimIdle
    /\ DdIdle
    /\ AggIdle
    /\ InsIdle
    /\ FcIdle
    /\ EmaIdle
    /\ DashIdle

IndNext ==
    \/ \E window \in SmaWindows : CallSMA(window)
    \/ CallRSI
    \/ CallMACD
    \/ CallBollingerBands
    \/ CallBollingerBandwidth
    \/ CallStochastic
    \/ CallVWAP
    \/ CallADX
    \/ \E indicator \in BacktestIndicators : CallBacktest(indicator)

IndSpec == IndInit /\ [][IndNext]_vars

\* ------------------------------------------------------------------------
\* Properties of the indicators
\* ------------------------------------------------------------------------
IndDone(call) == indPc = "done" /\ indCall = call

\* the names of the series each function returns
SeriesNames(call) ==
    IF call = "sma" THEN {"sma"}
    ELSE IF call = "rsi" THEN {"rsi"}
    ELSE IF call = "macd" THEN {"macd", "signal"}
    ELSE IF call = "bollinger" THEN {"middle", "upper", "lower"}
    ELSE IF call = "bandwidth" THEN {"bandwidth"}
    ELSE IF call = "stochastic" THEN {"percentK", "percentD"}
    ELSE IF call = "vwap" THEN {"vwap"}
    ELSE IF call = "adx" THEN {"adx", "plusDI", "minusDI"}
    ELSE {"signals"}

IndicatorCalls ==
    {"sma", "rsi", "macd", "bollinger", "bandwidth", "stochastic", "vwap", "adx"}

\* C12: every series an indicator function returns has one position per
\* input bar, the empty input included.
C12_SeriesLengthEqualsBars ==
    (indPc = "done" /\ indCall \in IndicatorCalls) =>
        /\ DOMAIN indOut = SeriesNames(indCall)
        /\ \A name \in SeriesNames(indCall) :
              DOMAIN indOut[name] = 1..Len(indBars)

\* the stochastic oscillator on a history longer than both of its windows
C12_Witness ==
    /\ IndDone("stochastic")
    /\ Len(indBars) > StochKWindow + StochDWindow
    /\ Len(indOut.percentD) = Len(indBars)

\* the window of each windowed indicator (MACD: its long period)
WindowOf(call) ==
    IF call = "sma" THEN SmaWindow
    ELSE IF call = "rsi" THEN RsiWindow
    ELSE IF call = "macd" THEN MacdLongWindow
    ELSE IF call = "bollinger" THEN BollingerWindow
    ELSE IF call = "stochastic" THEN StochKWindow
    ELSE AdxPeriod

\* C13: on a history shorter than the indicator's window every element of
\* every returned series is null (SMA 20, RSI 14, MACD 26, Bollinger 20,
\* Stochastic 14, ADX 14).
C13_ShortHistoryAllNull ==
    (/\ indPc = "done"
     /\ indCall \in {"sma", "rsi", "macd", "bollinger", "stochastic", "adx"}
     /\ indCall = "sma" => indWindow = SmaWindow
     /\ Len(indBars) < WindowOf(indCall)) =>
        \A name \in SeriesNames(indCall) :
            \A i \in 1..Len(indBars) : indOut[name][i] = FNull

\* C14: a computed RSI value is exactly 100 iff the smoothed average loss it
\* was computed from is zero; on 15 bars each rising by 1 the value at
\* index 14 is 100.
C14_RsiHundredIffNoLoss ==
    IndDone("rsi") =>
        /\ \A i \in 1..Len(indBars) :
              indOut.rsi[i] # FNull =>
                 (indOut.rsi[i] = FInt(100)
                    <=> RsiRun(indBars, RsiWindow).losses[i] = FZero)
        /\ indBars = [i \in 1..15 |-> RisingBar(i)] => indOut.rsi[15] = FInt(100)

\* trailing window of kWindow bars ending at position i: highest high and
\* lowest low, a null price counting as 0
WindowHigh(i) ==
    CHOOSE h \in {Num(indBars[j].high) : j \in (i + 1 - StochKWindow)..i} :
        \A j \in (i + 1 - StochKWindow)..i : FLe(Num(indBars[j].high), h)
WindowLow(i) ==
    CHOOSE l \in {Num(indBars[j].low) : j \in (i + 1 - StochKWindow)..i} :
        \A j \in (i + 1 - StochKWindow)..i : FLe(l, Num(indBars[j].low))

\* C15 as stated: from index kWindow-1 on, %K is in [0,100] and is 0 iff the
\* trailing high-low range is zero.
C15_PercentKZeroIffNoRange ==
    IndDone("stochastic") =>
        \A i \in StochKWindow..Len(indBars) :
            /\ FLe(FZero, indOut.percentK[i])
            /\ FLe(indOut.percentK[i], FInt(100))
            /\ indOut.percentK[i] = FZero <=> WindowHigh(i) = WindowLow(i)

\* C15 amended: from index kWindow-1 on, %K is 0 when the trailing range is
\* zero; when the close lies inside the trailing range, %K is in [0,100] and
\* is 0 iff the range is zero or the close is the trailing lowest low.
C15_PercentKOfCloseInRange ==
    IndDone("stochastic") =>
        \A i \in StochKWindow..Len(indBars) :
            /\ WindowHigh(i) = WindowLow(i) => indOut.percentK[i] = FZero
            /\ (FLe(WindowLow(i), Num(indBars[i].close))
                  /\ FLe(Num(indBars[i].close), WindowHigh(i))) =>
                 /\ FLe(FZero, indOut.percentK[i])
                 /\ FLe(indOut.percentK[i], FInt(100))
                 /\ indOut.percentK[i] = FZero <=>
                       (WindowHigh(i) = WindowLow(i)
                          \/ Num(indBars[i].close) = WindowLow(i))

\* a close at the trailing low of a nonempty range, and a close at its high
C15_Witness ==
    /\ IndDone("stochastic")
    /\ \E i \in StochKWindow..Len(indBars) :
          /\ WindowHigh(i) # WindowLow(i)
          /\ Num(indBars[i].close) = WindowLow(i)
          /\ indOut.percentK[i] = FZero
    /\ Len(indBars) > StochKWindow

\* the bars before position i that have volume
VolumeBarsBefore(i) == {j \in 1..(i - 1) : Truthy(indBars[j].volume)}
LastOf(S) == CHOOSE j \in S : \A k \in S : k <= j

\* C16: a bar with zero or null volume has VWAP null if no earlier bar had
\* volume, and otherwise the VWAP of the latest earlier bar with volume.
C16_VwapCarriedOverEmptyBars ==
    IndDone("vwap") =>
        \A i \in 1..Len(indBars) :
            ~Truthy(indBars[i].volume) =>
                indOut.vwap[i] =
                    IF VolumeBarsBefore(i) = {} THEN FNull
                    ELSE indOut.vwap[LastOf(VolumeBarsBefore(i))]

\* the integer a close of the input families stands for (null counts 0)
CloseInt(bar) ==
    LET c == Num(bar.close)
    IN  IF c.m = 0 THEN 0
        ELSE IF c.e >= 0 THEN c.m * 2^c.e ELSE c.m \div 2^(-c.e)

RECURSIVE CloseSum(_, _)
CloseSum(from, to) ==
    IF to < from THEN 0 ELSE CloseSum(from, to - 1) + CloseInt(indBars[to])

\* |v - total/w| <= eps * total/w for a Number v >= 0 and an exact total >= 0
\* of w terms, with eps = 2 * w * 2^-MantBits: the bound on the rounding of
\* w - 1 additions and one division
NearMean(v, total, w) ==
    /\ v.k = "fin"
    /\ Sgn(v) >= 0
    /\ LET lhs == IF v.e >= 0 THEN v.m * 2^v.e * w * 2^MantBits - total * 2^MantBits
                  ELSE v.m * w * 2^MantBits - total * 2^(MantBits - v.e)
           rhs == IF v.e >= 0 THEN 2 * total * w * w ELSE 2 * total * w * w * 2^(-v.e)
       IN  lhs <= rhs /\ -lhs <= rhs

BuyLabels == {"buy_weak", "buy_medium", "buy_strong"}
SellLabels == {"sell_weak", "sell_medium", "sell_strong"}

\* positions at which the named indicator cannot have an event yet: the
\* first bar of a crossover rule, and the bars before its series is defined
TooEarly(indicator, i) ==
    \/ indicator = "sma" /\ i <= SmaWindow
    \/ indicator = "rsi" /\ i <= RsiWindow
    \/ indicator = "macd" /\ i = 1
    \/ indicator = "bollinger" /\ i < BollingerWindow
    \/ indicator = "stochastic" /\ i <= StochKWindow

\* C18: backtestStrategy returns one signal per bar; a signal is numerically
\* 1 iff its label is a buy label, -1 iff a sell label, 0 iff hold, and there
\* are no other labels; an indicator name outside the five known ones gives
\* hold on every bar, and so does every bar too early for an event.
C18_OneSignalPerBar ==
    IndDone("backtest") =>
        /\ DOMAIN indOut.signals = 1..Len(indBars)
        /\ \A i \in 1..Len(indBars) :
              LET sig == indOut.signals[i]
              IN  /\ sig.signal \in BuyLabels \cup SellLabels \cup {"hold"}
                  /\ sig.numericSignal \in {-1, 0, 1}
                  /\ sig.numericSignal = 1 <=> sig.signal \in BuyLabels
                  /\ sig.numericSignal = -1 <=> sig.signal \in SellLabels
                  /\ sig.numericSignal = 0 <=> sig.signal = "hold"
                  /\ btIndicator \notin {"sma", "rsi", "macd", "bollinger", "stochastic"}
                        => sig.signal = "hold"
                  /\ TooEarly(btIndicator, i) => sig.signal = "hold"

\* a backtest that produced a buy, a sell and a hold
C18_Witness ==
    /\ IndDone("backtest")
    /\ \E i, j, k \in 1..Len(indBars) :
          /\ indOut.signals[i].signal \in BuyLabels
          /\ indOut.signals[j].signal \in SellLabels
          /\ indOut.signals[k].signal = "hold"

\* the grade a label carries
Severity(label) ==
    IF label \in {"buy_strong", "sell_strong"} THEN "strong"
    ELSE IF label \in {"buy_medium", "sell_medium"} THEN "medium"
    ELSE IF label \in {"buy_weak", "sell_weak"} THEN "weak"
    ELSE "none"

\* the grade of a gap between average and close: strong above 2% of the
\* close, medium above 0.5%, else weak
GapSeverity(gap, close) ==
    IF FGt(gap, FMul(close, FRat(2, 100))) THEN "strong"
    ELSE IF FGt(gap, FMul(close, FRat(5, 1000))) THEN "medium"
    ELSE "weak"

\* what C22 says of the signal sig of position i, given the average and the closes
SmaCrossoverAt(sma, closes, sig, i) ==
    IF i = 1 \/ IsNullish(sma[IF i = 1 THEN 1 ELSE i - 1]) \/ IsNullish(sma[i])
    THEN sig.signal = "hold"
    ELSE /\ sig.signal \in SellLabels <=>
               (FLt(sma[i - 1], closes[i - 1]) /\ FGe(sma[i], closes[i]))
         /\ sig.signal \in BuyLabels <=>
               (FGt(sma[i - 1], closes[i - 1]) /\ FLe(sma[i], closes[i]))
         /\ sig.signal \in BuyLabels \cup SellLabels \cup {"hold"}
         /\ sig.signal # "hold" =>
               Severity(sig.signal) = GapSeverity(MathAbs(FSub(sma[i], closes[i])), closes[i])

SmaCrossoverOn(sma, closes, signals) ==
    \A i \in 1..Len(closes) : SmaCrossoverAt(sma, closes, signals[i], i)

\* C22: with indicator 'sma' a bar is a sell iff the average was below the
\* previous close and is at or above this close, a buy iff it was above and
\* is at or below, else hold; the grade is strong for a gap above 2% of the
\* close, medium above 0.5%, else weak; the first bar and every bar without
\* two consecutive defined averages is hold.
C22_SmaCrossoverSignals ==
    (IndDone("backtest") /\ btIndicator = "sma") =>
        SmaCrossoverOn(CalculateSMA(indBars, SmaWindow), BtCloses(indBars), indOut.signals)

\* a history with a strong sell followed by a strong buy
C22_Witness ==
    /\ IndDone("backtest")
    /\ btIndicator = "sma"
    /\ Len(indBars) > SmaWindow + 1
    /\ indOut.signals[SmaWindow].signal = "hold"
    /\ indOut.signals[SmaWindow + 1].signal = "sell_strong"
    /\ indOut.signals[SmaWindow + 2].signal = "buy_strong"

\* ------------------------------------------------------------------------
\* The ema helper on series with gaps
\* ------------------------------------------------------------------------
\* what a position of the input holds: a gap or one of two prices
EmaInputValues == {FNull, FInt(8), FInt(20)}
EmaInputs == UNION {[1..n -> EmaInputValues] : n \in 0..MaxEmaLen}
\* the periods the indicators hand to ema
EmaPeriods == {MacdShortWindow, MacdLongWindow, MacdSignalWindow, AdxPeriod}

CallEma(period) ==
    /\ emaPc = "input"
    /\ emaPeriod' = period
    /\ emaResult' = Ema(emaValues, period)
    /\ emaPc' = "done"
    /\ UNCHANGED <<emaValues, nonEmaVars>>

EmaInit ==
    /\ emaValues \in EmaInputs
    /\ emaPeriod = 0
    /\ emaResult = <<>>
    /\ emaPc = "input"
    /\ SimIdle
    /\ DdIdle
    /\ AggIdle
    /\ InsIdle
    /\ IndIdle
    /\ FcIdle
    /\ DashIdle

EmaNext == \E period \in EmaPeriods : CallEma(period)

EmaSpec == EmaInit /\ [][EmaNext]_vars

\* position of the first non-null input, Len + 1 when there is none
FirstValue(values) ==
    IF \A i \in 1..Len(values) : IsNullish(values[i]) THEN Len(values) + 1
    ELSE CHOOSE i \in 1..Len(values) :
            /\ ~IsNullish(values[i])
            /\ \A j \in 1..(i - 1) : IsNullish(values[j])

\* C21: ema outputs null before the first non-null input, that input itself
\* at its position, the previous output again wherever a later input is
\* null, and so never null from the first non-null input on.
C21_EmaSeedAndCarry ==
    emaPc = "done" =>
        /\ Len(emaResult) = Len(emaValues)
        /\ \A i \in 1..Len(emaValues) :
              /\ i < FirstValue(emaValues) => emaResult[i] = FNull
              /\ i = FirstValue(emaValues) => emaResult[i] = emaValues[i]
              /\ (i > FirstValue(emaValues) /\ IsNullish(emaValues[i])) =>
                    emaResult[i] = emaResult[i - 1]
              /\ i >= FirstValue(emaValues) => ~IsNullish(emaResult[i])

\* a series that starts with a gap, has a gap after its first value and a
\* value after that gap
C21_Witness ==
    /\ emaPc = "done"
    /\ emaValues = <<FNull, FInt(8), FNull, FInt(20)>>
    /\ emaResult[1] = FNull
    /\ emaResult[3] = FInt(8)
    /\ FGt(emaResult[4], FInt(8))

\* ------------------------------------------------------------------------
\* predictFuturePrices and the price targets
\* ------------------------------------------------------------------------
\* points.map(getClose).filter((value) => Number.isFinite(value))
RECURSIVE FiniteCloses(_)
FiniteCloses(pts) ==
    IF pts = <<>> THEN <<>>
    ELSE IF IsFin(Num(Head(pts).close))
         THEN <<Num(Head(pts).close)>> \o FiniteCloses(Tail(pts))
         ELSE FiniteCloses(Tail(pts))

\* the loop of linearRegression from position i (x = i - 1) on
RECURSIVE RegressionSums(_, _, _)
RegressionSums(ys, i, sums) ==
    IF i > Len(ys) THEN sums
    ELSE RegressionSums(ys, i + 1,
            [sumX |-> FAdd(sums.sumX, FInt(i - 1)),
             sumY |-> FAdd(sums.sumY, Num(ys[i])),
             sumXY |-> FAdd(sums.sumXY, FMul(FInt(i - 1), Num(ys[i]))),
             sumXX |-> FAdd(sums.sumXX, FMul(FInt(i - 1), FInt(i - 1)))])

LinearRegression(ys) ==
    IF Len(ys) = 0 THEN [slope |-> FZero, intercept |-> FZero]
    ELSE LET n == FInt(Len(ys))
             t == RegressionSums(ys, 1, [sumX |-> FZero, sumY |-> FZero,
                                         sumXY |-> FZero, sumXX |-> FZero])
             denominator == FSub(FMul(n, t.sumXX), FMul(t.sumX, t.sumX))
             slope == IF FEq(denominator, FZero) THEN FZero
                      ELSE FDiv(FSub(FMul(n, t.sumXY), FMul(t.sumX, t.sumY)), denominator)
         IN  [slope |-> slope,
              intercept |-> FDiv(FSub(t.sumY, FMul(slope, t.sumX)), n)]

SmoothSeries(values, window) ==
    [i \in 1..Len(values) |->
        MeanOf(SubSeq(values, IF i - window + 1 > 1 THEN i - window + 1 ELSE 1, i))]

\* A date of a bar is an ISO timestamp in UTC, [day, hour]; a Date is an
\* instant, in hours; a formatted date is the number of a calendar day.
\* new Date(iso)
NewDate(iso) == 24 * iso.day + iso.hour

\* addDays(date, amount): setDate(getDate() + amount) on the local fields
AddDays(date, amount, zone) ==
    24 * (((date + zone) \div 24) + amount) + ((date + zone) % 24) - zone

\* formatISO(date, { representation: 'date' }): the local calendar day
FormatISODate(date, zone) == (date + zone) \div 24

\* formatISO(addDays(lastDate, i), { representation: 'date' })
ForecastDate(lastDate, i, zone) == FormatISODate(AddDays(lastDate, i, zone), zone)

\* the predictions of a fitted line: x = length + i for i = 1..days
LinePredictions(line, length, lastDate, days, zone) ==
    [i \in 1..days |->
        [date |-> ForecastDate(lastDate, i, zone),
         value |-> FAdd(FMul(line.slope, FInt(length + i)), line.intercept)]]

\* mutant of PredictFuturePrices: an unknown model falls back to 'simple'
PredictFuturePricesDefaulting(pts, model, days, zone) ==
    LET closes == FiniteCloses(pts)
        lastPrice == closes[Len(closes)]
        trend == FDiv(FSub(lastPrice, closes[1]), FInt(Len(closes)))
    IN  IF Len(closes) = 0 THEN <<>>
        ELSE [i \in 1..days |->
                [date |-> ForecastDate(NewDate(pts[Len(pts)].date), i, zone),
                 value |-> FAdd(lastPrice, FMul(trend, FInt(i)))]]

\* predictFuturePrices(points, indicator, model, days) in a process whose
\* local time is zone hours ahead of UTC
PredictFuturePrices(pts, model, days, zone) ==
    LET closes == FiniteCloses(pts)
        lastDate == NewDate(pts[Len(pts)].date)
    IN  IF Len(closes) = 0 THEN <<>>
        ELSE IF model = "simple"
        THEN LET lastPrice == closes[Len(closes)]
                 trend == FDiv(FSub(lastPrice, closes[1]), FInt(Len(closes)))
             IN  [i \in 1..days |->
                     [date |-> ForecastDate(lastDate, i, zone),
                      value |-> FAdd(lastPrice, FMul(trend, FInt(i)))]]
        ELSE IF model = "arima"
        THEN LinePredictions(LinearRegression(closes), Len(closes), lastDate, days, zone)
        ELSE IF model = "prophet"
        THEN LinePredictions(LinearRegression(SmoothSeries(closes, 7)), Len(closes),
                             lastDate, days, zone)
        ELSE <<>>

\* mutant of Clamp: only the upper limit is applied
ClampUpperOnly(value, low, high) == MathMin(value, high)

\* clamp(value, low, high) = Math.min(Math.max(value, low), high)
Clamp(value, low, high) == MathMin(MathMax(value, low), high)

\* priceTargets of computeSignals: <<>> stands for null
PriceTargets(prediction) ==
    IF Len(prediction) > 0
    THEN LET last == prediction[Len(prediction)].value
         IN  <<[optimistic |-> Clamp(FMul(last, FRat(108, 100)), FZero, FInf(1)),
                base |-> last,
                conservative |-> Clamp(FMul(last, FRat(92, 100)), FZero, FInf(1))]>>
    ELSE <<>>

\* histories as the providers deliver them: each close a number or null
FcCloses == {FNull, FInt(7), FInt(14)}
\* the UTC hour of the bars' timestamps: midnight, or the evening
FcHours == {0, 20}
\* offsets of the local time of the process from UTC, in hours
TimeZones == {-5, 0, 9}
FcInputs ==
    UNION {{[i \in 1..n |-> [date |-> [day |-> i, hour |-> hour], close |-> f[i]]] :
               f \in [1..n -> FcCloses], hour \in FcHours}
             : n \in 0..MaxFcBars}
FcModels == {"simple", "arima", "prophet", "lstm"}

FcPredict ==
    /\ fcPc = "input"
    /\ fcOut' = PredictFuturePrices(fcPoints, fcModel, fcDays, fcZone)
    /\ fcPc' = "predicted"
    /\ UNCHANGED <<fcPoints, fcModel, fcDays, fcZone, fcTargets, nonFcVars>>

FcPriceTargets ==
    /\ fcPc = "predicted"
    /\ fcTargets' = PriceTargets(fcOut)
    /\ fcPc' = "done"
    /\ UNCHANGED <<fcPoints, fcModel, fcDays, fcZone, fcOut, nonFcVars>>

FcInit ==
    /\ fcPoints \in FcInputs
    /\ fcModel \in FcModels
    /\ fcDays \in 0..MaxDays
    /\ fcZone \in TimeZones
    /\ fcOut = <<>>
    /\ fcTargets = <<>>
    /\ fcPc = "input"
    /\ SimIdle
    /\ DdIdle
    /\ AggIdle
    /\ InsIdle
    /\ IndIdle
    /\ EmaIdle
    /\ DashIdle

FcNext == FcPredict \/ FcPriceTargets

FcSpec == FcInit /\ [][FcNext]_vars

\* C19: for the models simple, arima and prophet and a nonempty history the
\* forecast has exactly `days` points; for an empty history or any other
\* model name it is empty.
C19_ForecastLength ==
    fcPc \in {"predicted", "done"} =>
        IF Len(fcPoints) > 0 /\ fcModel \in {"simple", "arima", "prophet"}
        THEN Len(fcOut) = fcDays
        ELSE fcOut = <<>>

\* a full-length forecast of each kind is reached: here the smoothed one
C19_Witness ==
    /\ fcPc = "predicted"
    /\ fcModel = "prophet"
    /\ Len(fcPoints) = MaxFcBars
    /\ fcDays = MaxDays
    /\ Len(fcOut) = MaxDays

\* the larger of 0 and x
AtLeastZero(x) == IF FLt(x, FZero) THEN FZero ELSE x

\* C20: with a nonempty forecast, base is the last forecast value,
\* optimistic is max(0, base * 1.08) and conservative is max(0, base * 0.92);
\* with an empty forecast priceTargets is null.
C20_PriceTargetsFromLastValue ==
    fcPc = "done" =>
        IF fcOut # <<>>
        THEN /\ Len(fcTargets) = 1
             /\ fcTargets[1].base = fcOut[Len(fcOut)].value
             /\ fcTargets[1].optimistic =
                   AtLeastZero(FMul(fcTargets[1].base, FRat(108, 100)))
             /\ fcTargets[1].conservative =
                   AtLeastZero(FMul(fcTargets[1].base, FRat(92, 100)))
        ELSE fcTargets = <<>>

\* a falling forecast that ends below zero: both targets are clamped to 0
C20_Witness ==
    /\ fcPc = "done"
    /\ fcOut # <<>>
    /\ FLt(fcOut[Len(fcOut)].value, FZero)
    /\ fcTargets[1].optimistic = FZero
    /\ fcTargets[1].conservative = FZero

\* the closes predictFuturePrices keeps
FcKept == FiniteCloses(fcPoints)

\* C23: with model 'simple' point i of the forecast has the value
\* last_close + i * (last_close - first_close) / count and the date of the
\* last bar plus i calendar days.
C23_SimpleForecast ==
    (fcPc \in {"predicted", "done"} /\ fcModel = "simple" /\ Len(fcPoints) > 0) =>
        \A i \in 1..fcDays :
            /\ fcOut[i].value =
                  FAdd(FcKept[Len(FcKept)], FMul(FDiv(FSub(FcKept[Len(FcKept)], FcKept[1]), FInt(Len(FcKept))),
                                       FInt(i)))
            /\ fcOut[i].date = fcPoints[Len(fcPoints)].date.day + i

\* the value at index x of a fitted line
LineAt(line, x) == FAdd(FMul(line.slope, FInt(x)), line.intercept)

\* C24: with model 'arima' point i of the forecast is the value, at index
\* (n - 1) + i, of the least-squares line fitted to the n closes at the
\* indices 0 .. n - 1, so the forecast starts right after the last close.
C24_ArimaContinuesLine ==
    (fcPc \in {"predicted", "done"} /\ fcModel = "arima" /\ Len(fcPoints) > 0) =>
        \A i \in 1..fcDays :
            fcOut[i].value = LineAt(LinearRegression(FcKept), Len(FcKept) - 1 + i)

\* C29: whenever priceTargets is not null, conservative <= base <= optimistic.
C29_TargetsOrdered ==
    (fcPc = "done" /\ fcTargets # <<>>) =>
        /\ FLe(fcTargets[1].conservative, fcTargets[1].base)
        /\ FLe(fcTargets[1].base, fcTargets[1].optimistic)

\* ---------------------------------------------------------------------------
\* Dashboard: loading the insights (loadInsights, its effect and the buttons)
\* ---------------------------------------------------------------------------

\* parameter changes a run follows
MaxChanges == 2

\* getInsights calls in flight at the same time
MaxInFlight == 3

DashSymbols == {"AAPL", "MSFT"}
DashRanges == {"1y", "1mo"}

\* the parameters loadInsights closes over
DashParams == [symbol : DashSymbols, range : DashRanges]

\* useState('AAPL'), useState('1y')
InitialParams == [symbol |-> "AAPL", range |-> "1y"]

\* cancelRef?.current: a call without a cancelRef is never cancelled
IsCancelled(request, cancelled) ==
    request.cancelRef # <<>> /\ request.cancelRef[1] \in cancelled

\* the sequence without its element at index i
RemoveAt(seq, i) == SubSeq(seq, 1, i - 1) \o SubSeq(seq, i + 1, Len(seq))

\* loadInsights up to its await: the loading flag is raised, the error is
\* cleared and getInsights is called with the parameters of this render
LoadInsights(cancelRef) ==
    /\ dashLoading' = TRUE
    /\ dashError' = FALSE
    /\ dashRequests' = Append(dashRequests,
                              [params |-> dashParams, gen |-> dashGen, cancelRef |-> cancelRef])

\* the first run of the effect: a fresh cancelRef and loadInsights({ cancelRef })
DashMount ==
    /\ dashPc = "rendered"
    /\ dashPc' = "mounted"
    /\ LoadInsights(<<dashGen>>)
    /\ UNCHANGED <<dashParams, dashGen, dashCancelled, dashShown>>
    /\ UNCHANGED nonDashVars

\* setSymbol / setRange with a new value: loadInsights is rebuilt, the cleanup
\* of the effect sets the previous cancelRef and the effect runs again
SetParams(params) ==
    /\ dashPc = "mounted"
    /\ params # dashParams
    /\ dashGen < MaxChanges
    /\ Len(dashRequests) < MaxInFlight
    /\ dashParams' = params
    /\ dashGen' = dashGen + 1
    /\ dashCancelled' = dashCancelled \cup {dashGen}
    /\ dashLoading' = TRUE
    /\ dashError' = FALSE
    /\ dashRequests' = Append(dashRequests,
                              [params |-> params, gen |-> dashGen + 1, cancelRef |-> <<dashGen + 1>>])
    /\ UNCHANGED <<dashShown, dashPc>>
    /\ UNCHANGED nonDashVars

\* handleRunBacktest, handleRunSimulation, handleGeneratePrediction
HandleButton ==
    /\ dashPc = "mounted"
    /\ Len(dashRequests) < MaxInFlight
    /\ LoadInsights(<<>>)
    /\ UNCHANGED <<dashParams, dashGen, dashCancelled, dashShown, dashPc>>
    /\ UNCHANGED nonDashVars

\* loadInsights after its await, for the request at index i: unless its
\* cancelRef is set, applyInsights(payload) shows the insights of the parameters
\* the request was made with and applyInsights(null) clears them
Settle(i, rejected) ==
    /\ dashPc = "mounted"
    /\ i \in 1..Len(dashRequests)
    /\ dashRequests' = RemoveAt(dashRequests, i)
    /\ IF IsCancelled(dashRequests[i], dashCancelled)
       THEN UNCHANGED <<dashShown, dashError, dashLoading>>
       ELSE /\ dashShown' = IF rejected THEN <<>> ELSE <<dashRequests[i].params>>
            /\ dashError' = IF rejected THEN TRUE ELSE dashError
            /\ dashLoading' = FALSE
    /\ UNCHANGED <<dashParams, dashGen, dashCancelled, dashPc>>
    /\ UNCHANGED nonDashVars

SettleFulfilled == \E i \in 1..MaxInFlight : Settle(i, FALSE)
SettleRejected == \E i \in 1..MaxInFlight : Settle(i, TRUE)
DashSetParams == \E params \in DashParams : SetParams(params)

DashInit ==
    /\ dashParams = InitialParams
    /\ dashGen = 0
    /\ dashRequests = <<>>
    /\ dashCancelled = {}
    /\ dashShown = <<>>
    /\ dashError = FALSE
    /\ dashLoading = FALSE
    /\ dashPc = "rendered"
    /\ SimIdle
    /\ DdIdle
    /\ AggIdle
    /\ InsIdle
    /\ IndIdle
    /\ FcIdle
    /\ EmaIdle

DashNext ==
    \/ DashMount
    \/ DashSetParams
    \/ HandleButton
    \/ SettleFulfilled
    \/ SettleRejected

DashSpec == DashInit /\ [][DashNext]_vars

\* a request of an earlier render settles in this step
SupersededSettles ==
    \E i \in 1..Len(dashRequests) :
        /\ dashRequests[i].gen < dashGen
        /\ dashRequests' = RemoveAt(dashRequests, i)
        /\ dashGen' = dashGen

\* C30: the response of a superseded insights request is never applied,
\* whether the effect or a button started it, and once every request has
\* settled the insights on display are those of the current parameters.
C30_SupersededNeverApplied ==
    /\ [][SupersededSettles => dashShown' = dashShown]_vars
    /\ [](dashPc = "mounted" /\ dashRequests = <<>> /\ dashShown # <<>>
              => dashShown[1] = dashParams)

====
